---------------------------- MODULE Spec2Model ----------------------------
(***************************************************************************)
(* A model of the AXCSS compilation engine                                 *)
(* (src/src/processors/componentProcessor.js) and of its callers.          *)
(*                                                                         *)
(* Text is modelled character by character: a text is a TLA+ string, a     *)
(* position is the 1-based index of a character (the JavaScript index      *)
(* plus one), and 0 stands for JavaScript's -1 ("not found").  The only    *)
(* position kept in JavaScript's own 0-based form is the state variable    *)
(* lastIndex, the lastIndex property of the module-level IMPORT_REGEX.     *)
(* Every regular expression of the source is modelled by a matcher that    *)
(* scans the characters the way the expression does.                       *)
(***************************************************************************)
EXTENDS Integers, Sequences, FiniteSets, TLC

(* ------------------------- characters and strings ---------------------- *)

LowerLetters == {"a","b","c","d","e","f","g","h","i","j","k","l","m",
                 "n","o","p","q","r","s","t","u","v","w","x","y","z"}

UpperLetters == {"A","B","C","D","E","F","G","H","I","J","K","L","M",
                 "N","O","P","Q","R","S","T","U","V","W","X","Y","Z"}

Digits == {"0","1","2","3","4","5","6","7","8","9"}

\* [a-zA-Z]
Letters == LowerLetters \cup UpperLetters

\* [a-zA-Z0-9_\-]
IdChars == Letters \cup Digits \cup {"_", "-"}

\* \s
isWhitespace(ch) == ch \in {" ", "\n", "\t", "\r"}

\* ['"]
IsQuote(ch) == ch \in {"'", "\""}

\* content[i] (1-based); "" outside the string, like JavaScript's undefined
Ch(s, i) == IF i >= 1 /\ i <= Len(s) THEN SubSeq(s, i, i) ELSE ""

\* content.slice(i-1, j-1): the characters at positions i .. j-1
Slice(s, i, j) ==
  LET a == IF i < 1 THEN 1 ELSE i
      b == IF j > Len(s) + 1 THEN Len(s) + 1 ELSE j
  IN IF b <= a THEN "" ELSE SubSeq(s, a, b - 1)

\* content.slice(i-1)
SliceFrom(s, i) == Slice(s, i, Len(s) + 1)

\* s.startsWith(lit, i-1)
StartsWithAt(s, i, lit) ==
  /\ i >= 1
  /\ i + Len(lit) - 1 <= Len(s)
  /\ SubSeq(s, i, i + Len(lit) - 1) = lit

Min(S) == CHOOSE x \in S : \A y \in S : x <= y

Max(S) == CHOOSE x \in S : \A y \in S : x >= y

\* s.indexOf(lit, from-1) + 1: the first position >= from where lit occurs, 0 if none
IndexOf(s, lit, from) ==
  LET hits == {i \in (IF from < 1 THEN 1 ELSE from)..(Len(s) - Len(lit) + 1) :
                 SubSeq(s, i, i + Len(lit) - 1) = lit}
  IN IF hits = {} THEN 0 ELSE Min(hits)

\* s.includes(lit)
Includes(s, lit) == IndexOf(s, lit, 1) > 0

\* the first position >= i whose character is not in the class, Len(s) + 1 if
\* there is none: the end of a greedy [class]* that starts at position i
ClassEnd(s, i, class) ==
  IF i > Len(s) THEN i
  ELSE Min({j \in i..(Len(s) + 1) : j = Len(s) + 1 \/ Ch(s, j) \notin class})

WhiteSpace == {" ", "\n", "\t", "\r"}

\* the end of a \s* that starts at position i
SkipWs(s, i) == ClassEnd(s, i, WhiteSpace)

\* the end of a [a-zA-Z0-9_\-]* that starts at position i
RunEnd(s, i) == ClassEnd(s, i, IdChars)

TrimLeft(s) == SliceFrom(s, SkipWs(s, 1))

TrimRight(s) ==
  LET keep == {j \in 1..Len(s) : ~isWhitespace(Ch(s, j))}
  IN IF keep = {} THEN "" ELSE Slice(s, 1, Max(keep) + 1)

\* s.trim()
Trim(s) == TrimRight(TrimLeft(s))

\* s.replace(/^\s+|\s+$/g, '')
cleanBlockString(s) == Trim(s)

\* s.replace(/^['"]|['"]$/g, ''): one leading and one trailing quote are removed
StripQuotes(s) ==
  LET lead  == Len(s) >= 1 /\ IsQuote(Ch(s, 1))
      trail == Len(s) >= 1 /\ IsQuote(Ch(s, Len(s))) /\ (Len(s) >= 2 \/ ~lead)
  IN Slice(s, IF lead THEN 2 ELSE 1, IF trail THEN Len(s) ELSE Len(s) + 1)

\* s.replace(/^\$/, '')
StripDollar(s) == IF StartsWithAt(s, 1, "$") THEN Tail(s) ELSE s

RECURSIVE SplitOn(_, _)
\* s.split(sep) for a one-character separator
SplitOn(s, sep) ==
  LET i == IndexOf(s, sep, 1)
  IN IF i = 0 THEN <<s>>
     ELSE <<Slice(s, 1, i)>> \o SplitOn(SliceFrom(s, i + 1), sep)

RECURSIVE JoinWith(_, _)
\* parts.join(sep)
JoinWith(parts, sep) ==
  IF Len(parts) = 0 THEN ""
  ELSE IF Len(parts) = 1 THEN parts[1]
  ELSE parts[1] \o sep \o JoinWith(Tail(parts), sep)

\* s.replace(pat, repl) with a string pattern: the first occurrence only
ReplaceFirst(s, pat, repl) ==
  LET i == IndexOf(s, pat, 1)
  IN IF i = 0 THEN s ELSE Slice(s, 1, i) \o repl \o SliceFrom(s, i + Len(pat))

RECURSIVE ReplaceAll(_, _, _)
\* s.replace(/pat/g, repl) for a literal pattern
ReplaceAll(s, pat, repl) ==
  LET i == IndexOf(s, pat, 1)
  IN IF i = 0 THEN s
     ELSE Slice(s, 1, i) \o repl \o ReplaceAll(SliceFrom(s, i + Len(pat)), pat, repl)

LowerOf == [c \in UpperLetters |->
  CASE c = "A" -> "a" [] c = "B" -> "b" [] c = "C" -> "c" [] c = "D" -> "d"
    [] c = "E" -> "e" [] c = "F" -> "f" [] c = "G" -> "g" [] c = "H" -> "h"
    [] c = "I" -> "i" [] c = "J" -> "j" [] c = "K" -> "k" [] c = "L" -> "l"
    [] c = "M" -> "m" [] c = "N" -> "n" [] c = "O" -> "o" [] c = "P" -> "p"
    [] c = "Q" -> "q" [] c = "R" -> "r" [] c = "S" -> "s" [] c = "T" -> "t"
    [] c = "U" -> "u" [] c = "V" -> "v" [] c = "W" -> "w" [] c = "X" -> "x"
    [] c = "Y" -> "y" [] c = "Z" -> "z"]

RECURSIVE toLowerCase(_)
toLowerCase(s) ==
  IF Len(s) = 0 THEN ""
  ELSE (IF Ch(s, 1) \in UpperLetters THEN LowerOf[Ch(s, 1)] ELSE Ch(s, 1))
       \o toLowerCase(Tail(s))

(* ------------------------------ extractBlock --------------------------- *)

\* the for loop of extractBlock, which starts at a '{': the position of the
\* first '}' at which depth is back to 0 (as many '}' as '{' read so far), or 0
\* when the text ends first
ScanBlock(content, startIndex) ==
  LET opens  == {k \in startIndex..Len(content) : Ch(content, k) = "{"}
      closes == {k \in startIndex..Len(content) : Ch(content, k) = "}"}
      back   == {j \in closes : Cardinality({o \in opens : o < j})
                                 = Cardinality({c \in closes : c <= j})}
  IN IF back = {} THEN 0 ELSE Min(back)

\* ok = FALSE stands for block: null
extractBlock(content, startIndex) ==
  IF Ch(content, startIndex) # "{"
  THEN [ok |-> FALSE, block |-> "", end |-> startIndex]
  ELSE LET close == ScanBlock(content, startIndex)
       IN IF close = 0
          THEN [ok |-> FALSE, block |-> "", end |-> Len(content) + 1]
          ELSE [ok |-> TRUE, block |-> Slice(content, startIndex + 1, close),
                end |-> close + 1]

(* ------------------------------ parseParamList ------------------------- *)

\* one element of paramsStr.split(','), already trimmed and non-empty.
\* parts.slice(1).join(sep) is the text after the first separator.
ParseParam(raw) ==
  LET sep == IF Includes(raw, "=") THEN "="
             ELSE IF Includes(raw, ":") THEN ":" ELSE ""
  IN IF sep = ""
     THEN [name |-> StripDollar(raw), hasDefault |-> FALSE, defaultValue |-> ""]
     ELSE LET i == IndexOf(raw, sep, 1)
          IN [name |-> StripDollar(Trim(Slice(raw, 1, i))),
              hasDefault |-> TRUE,
              defaultValue |-> StripQuotes(Trim(SliceFrom(raw, i + 1)))]

RECURSIVE ParseParams(_)
ParseParams(parts) ==
  IF Len(parts) = 0 THEN <<>>
  ELSE LET raw == Trim(Head(parts))
       IN (IF raw = "" THEN <<>> ELSE <<ParseParam(raw)>>) \o ParseParams(Tail(parts))

\* hasDefault = FALSE stands for defaultValue: undefined
parseParamList(paramsStr) ==
  IF Trim(paramsStr) = "" THEN <<>> ELSE ParseParams(SplitOn(paramsStr, ","))

(* --------------------------- buildMergedProps -------------------------- *)

\* A JavaScript object with string keys is a sequence of [name, value]
\* records with distinct names, in insertion order.
HasProp(props, name) == \E i \in 1..Len(props) : props[i].name = name

GetProp(props, name) ==
  props[CHOOSE i \in 1..Len(props) : props[i].name = name].value

\* props[name] = value: an existing key keeps its place
SetProp(props, name, value) ==
  IF HasProp(props, name)
  THEN [i \in 1..Len(props) |->
          IF props[i].name = name THEN [name |-> name, value |-> value] ELSE props[i]]
  ELSE Append(props, [name |-> name, value |-> value])

LogEntry(level, text) == [level |-> level, text |-> text]

RECURSIVE MergeParams(_, _, _, _, _)
MergeParams(componentParams, instanceProps, componentName, instanceName, acc) ==
  IF Len(componentParams) = 0 THEN acc
  ELSE LET param == Head(componentParams)
           name  == param.name
           rest  == Tail(componentParams)
       IN IF HasProp(instanceProps, name)
          THEN MergeParams(rest, instanceProps, componentName, instanceName,
                 [acc EXCEPT !.merged = SetProp(@, name, GetProp(instanceProps, name))])
          ELSE IF param.hasDefault
          THEN MergeParams(rest, instanceProps, componentName, instanceName,
                 [acc EXCEPT !.merged = SetProp(@, name, param.defaultValue)])
          ELSE MergeParams(rest, instanceProps, componentName, instanceName,
                 [acc EXCEPT !.log = Append(@, LogEntry("error",
                    "Default value not defined for $" \o name \o " in instance "
                    \o componentName \o "." \o instanceName))])

\* the merge without its else-if branch: the values of the instance alone
InstanceValuesOnly(componentParams, instanceProps, componentName, instanceName) ==
  [merged |-> instanceProps, log |-> <<>>]

\* the merge without its if branch: the defaults of the component alone
DefaultsOnly(componentParams, instanceProps, componentName, instanceName) ==
  MergeParams(componentParams, <<>>, componentName, instanceName,
              [merged |-> <<>>, log |-> <<>>])

\* merged: the returned object; log: the logger.error calls made on the way
buildMergedProps(componentParams, instanceProps, componentName, instanceName) ==
  MergeParams(componentParams, instanceProps, componentName, instanceName,
              [merged |-> <<>>, log |-> <<>>])

(* ------------------------ parseComponentDefinition --------------------- *)

\* headerRegex = /component\s+([a-zA-Z][a-zA-Z0-9_\-]*)\s*\(([^)]*)\)\s*/ tried at
\* position i
MatchHeader(content, i) ==
  LET j     == SkipWs(content, i + 9)
      k     == RunEnd(content, j)
      l     == SkipWs(content, k)
      close == IndexOf(content, ")", l + 1)
      ok    == /\ StartsWithAt(content, i, "component")
               /\ j > i + 9
               /\ Ch(content, j) \in Letters
               /\ Ch(content, l) = "("
               /\ close > 0
  IN IF ok
     THEN [ok |-> TRUE, index |-> i, name |-> Slice(content, j, k),
           params |-> Slice(content, l + 1, close),
           end |-> SkipWs(content, close + 1)]
     ELSE [ok |-> FALSE, index |-> 0, name |-> "", params |-> "", end |-> 0]

RECURSIVE ExecHeader(_, _)
\* headerRegex.exec(content) with lastIndex = from - 1
ExecHeader(content, from) ==
  LET i == IndexOf(content, "component", from)
  IN IF i = 0 THEN MatchHeader(content, 0)
     ELSE IF MatchHeader(content, i).ok THEN MatchHeader(content, i)
     ELSE ExecHeader(content, i + 1)

RECURSIVE ParseDefsFrom(_, _)
ParseDefsFrom(content, from) ==
  LET match == ExecHeader(content, from)
  IN IF ~match.ok THEN <<>>
     ELSE LET braceIndex == IndexOf(content, "{", match.end)
              blk        == extractBlock(content, braceIndex)
          IN IF braceIndex = 0 THEN ParseDefsFrom(content, match.end)
             ELSE IF ~blk.ok THEN ParseDefsFrom(content, match.end)
             ELSE <<[name |-> match.name,
                     params |-> parseParamList(match.params),
                     body |-> cleanBlockString(blk.block)]>>
                  \o ParseDefsFrom(content, blk.end)

parseComponentDefinition(content) == ParseDefsFrom(content, 1)

(* ------------------------ parseComponentInstances ---------------------- *)

\* the start of the run of identifier characters that ends just before d
RunStart(s, d) == 1 + Max({k \in 0..(d - 1) : k = 0 \/ Ch(s, k) \notin IdChars})

\* instRegex = /([a-zA-Z][a-zA-Z0-9_\-]*)\.([a-zA-Z][a-zA-Z0-9_\-]*)\s*/g,
\* exec with lastIndex = from - 1.  A match starts at a letter; its first group
\* runs to the end of the identifier characters, where a '.' and a letter must
\* follow.  So each '.' followed by a letter gives at most one match, which
\* starts at the first letter, not before from, of the run that ends at the '.'.
InstStarts(content, from, d) ==
  {i \in (IF RunStart(content, d) < from THEN from ELSE RunStart(content, d))..(d - 1) :
     Ch(content, i) \in Letters}

ExecInst(content, from) ==
  LET dots == {d \in from..Len(content) :
                 /\ Ch(content, d) = "." /\ Ch(content, d + 1) \in Letters
                 /\ InstStarts(content, from, d) # {}}
  IN IF dots = {}
     THEN [ok |-> FALSE, index |-> 0, componentName |-> "", instanceName |-> "", end |-> 0]
     ELSE LET d  == Min(dots)
              i  == Min(InstStarts(content, from, d))
              e2 == RunEnd(content, d + 1)
          IN [ok |-> TRUE, index |-> i,
              componentName |-> Slice(content, i, d),
              instanceName |-> Slice(content, d + 1, e2),
              end |-> SkipWs(content, e2)]

RECURSIVE ParseProps(_, _, _)
\* propRegex = /\$([a-zA-Z0-9_\-]+)\s*:\s*([^;]+);?/g over the instance body
ParseProps(instanceBody, from, props) ==
  LET i     == IndexOf(instanceBody, "$", from)
      k     == RunEnd(instanceBody, i + 1)
      c     == SkipWs(instanceBody, k)
      semi  == IndexOf(instanceBody, ";", c + 1)
      stop  == IF semi = 0 THEN Len(instanceBody) + 1 ELSE semi
  IN IF i = 0 THEN props
     ELSE IF k = i + 1 \/ Ch(instanceBody, c) # ":" \/ stop = c + 1
     THEN ParseProps(instanceBody, i + 1, props)
     ELSE ParseProps(instanceBody, IF semi = 0 THEN stop ELSE stop + 1,
            SetProp(props, Slice(instanceBody, i + 1, k),
                    StripQuotes(Trim(Slice(instanceBody, c + 1, stop)))))

RECURSIVE ParseInstsFrom(_, _)
ParseInstsFrom(content, from) ==
  LET match == ExecInst(content, from)
  IN IF ~match.ok THEN <<>>
     ELSE LET braceIndex == IndexOf(content, "{", match.end)
              blk        == extractBlock(content, braceIndex)
              instanceBody == cleanBlockString(blk.block)
          IN IF braceIndex = 0 THEN ParseInstsFrom(content, match.end)
             ELSE IF ~blk.ok THEN ParseInstsFrom(content, match.end)
             ELSE <<[componentName |-> match.componentName,
                     instanceName |-> match.instanceName,
                     props |-> ParseProps(instanceBody, 1, <<>>),
                     rawBody |-> instanceBody]>>
                  \o ParseInstsFrom(content, blk.end)

parseComponentInstances(content) == ParseInstsFrom(content, 1)

(* -------------------- stripComponentAndInstanceBlocks ------------------ *)

RECURSIVE HeaderRanges(_, _)
\* the first while loop: [start, end) of every component found
HeaderRanges(content, from) ==
  LET match == ExecHeader(content, from)
      braceIndex == IndexOf(content, "{", match.end)
      blk == extractBlock(content, braceIndex)
  IN IF ~match.ok THEN <<>>
     ELSE IF braceIndex = 0 THEN HeaderRanges(content, match.end)
     ELSE <<[s |-> match.index, e |-> blk.end]>> \o HeaderRanges(content, blk.end)

RECURSIVE InstRanges(_, _)
\* the second while loop: [start, end) of every instance found
InstRanges(content, from) ==
  LET match == ExecInst(content, from)
      braceIndex == IndexOf(content, "{", match.end)
      blk == extractBlock(content, braceIndex)
  IN IF ~match.ok THEN <<>>
     ELSE IF braceIndex = 0 THEN InstRanges(content, match.end)
     ELSE <<[s |-> match.index, e |-> blk.end]>> \o InstRanges(content, blk.end)

RECURSIVE InsertDesc(_, _)
\* ranges.sort((a, b) => b[0] - a[0]) is stable: r goes after the ranges that
\* start at or after it
InsertDesc(sorted, r) ==
  IF Len(sorted) = 0 THEN <<r>>
  ELSE IF Head(sorted).s >= r.s THEN <<Head(sorted)>> \o InsertDesc(Tail(sorted), r)
  ELSE <<r>> \o sorted

RECURSIVE SortDesc(_, _)
SortDesc(ranges, sorted) ==
  IF Len(ranges) = 0 THEN sorted
  ELSE SortDesc(Tail(ranges), InsertDesc(sorted, Head(ranges)))

RECURSIVE CutRanges(_, _)
\* remaining = remaining.slice(0, s) + remaining.slice(e), range after range
CutRanges(remaining, ranges) ==
  IF Len(ranges) = 0 THEN remaining
  ELSE CutRanges(Slice(remaining, 1, Head(ranges).s) \o SliceFrom(remaining, Head(ranges).e),
                 Tail(ranges))

stripComponentAndInstanceBlocks(content) ==
  LET ranges == HeaderRanges(content, 1) \o InstRanges(content, 1)
  IN IF Len(ranges) = 0 THEN content
     ELSE Trim(CutRanges(content, SortDesc(ranges, <<>>)))

(* -------------------------- processWhenConditions ---------------------- *)

\* the end of a [^\s{]* that starts at position i
ValueEnd(s, i) ==
  IF i > Len(s) THEN i
  ELSE Min({j \in i..(Len(s) + 1) :
              j = Len(s) + 1 \/ isWhitespace(Ch(s, j)) \/ Ch(s, j) = "{"})

\* /when\s+\$([a-zA-Z0-9_\-]+)\s*(==|!=)\s*([^\s{]+)/ tried at position i;
\* end is the end of the third group
MatchWhen(body, i) ==
  LET j  == SkipWs(body, i + 4)
      k  == RunEnd(body, j + 1)
      o  == SkipWs(body, k)
      v  == SkipWs(body, o + 2)
      ve == ValueEnd(body, v)
      ok == /\ StartsWithAt(body, i, "when")
            /\ j > i + 4
            /\ Ch(body, j) = "$"
            /\ k > j + 1
            /\ Slice(body, o, o + 2) \in {"==", "!="}
            /\ ve > v
  IN IF ok
     THEN [ok |-> TRUE, index |-> i, varName |-> Slice(body, j + 1, k),
           operator |-> Slice(body, o, o + 2), value |-> Slice(body, v, ve),
           end |-> ve]
     ELSE [ok |-> FALSE, index |-> 0, varName |-> "", operator |-> "",
           value |-> "", end |-> 0]

RECURSIVE ExecWhen(_, _)
\* exec of the expression above with lastIndex = from - 1
ExecWhen(body, from) ==
  LET i == IndexOf(body, "when", from)
  IN IF i = 0 THEN MatchWhen(body, 0)
     ELSE IF MatchWhen(body, i).ok THEN MatchWhen(body, i)
     ELSE ExecWhen(body, i + 1)

\* String(props[varName])
StringOfProp(props, varName) ==
  IF HasProp(props, varName) THEN GetProp(props, varName) ELSE "undefined"

RECURSIVE WhenLoop(_, _, _, _, _)
\* the body of the while loop once the block after the header is known
WhenBlock(body, props, match, lastIdx, out1, bracePos, blk) ==
  IF bracePos = 0 THEN WhenLoop(body, props, lastIdx, lastIdx, out1)
  ELSE WhenLoop(body, props, blk.end, blk.end,
         IF (IF match.operator = "=="
             THEN StringOfProp(props, match.varName) = StripQuotes(Trim(match.value))
             ELSE StringOfProp(props, match.varName) # StripQuotes(Trim(match.value)))
         THEN out1 \o (IF blk.ok THEN blk.block ELSE "null")
         ELSE out1)

\* the body of the while loop with the when constructs of the block evaluated
\* in their turn
WhenBraceNested(body, props, match, lastIdx, out1, bracePos) ==
  WhenBlock(body, props, match, lastIdx, out1, bracePos,
            [extractBlock(body, bracePos) EXCEPT !.block = WhenLoop(@, props, 1, 1, "")])

\* the body of the while loop up to the search of the brace
WhenBrace(body, props, match, lastIdx, out1, bracePos) ==
  WhenBlock(body, props, match, lastIdx, out1, bracePos, extractBlock(body, bracePos))

\* the body of the while loop for a match
WhenMatch(body, props, cursor, out, match, lastIdx) ==
  WhenBrace(body, props, match, lastIdx, out \o Slice(body, cursor, match.index),
            IndexOf(body, "{", lastIdx))

\* one evaluation of the while condition, match being what exec returns
WhenStep(body, props, cursor, out, match) ==
  IF ~match.ok THEN out \o SliceFrom(body, cursor)
  ELSE WhenMatch(body, props, cursor, out, match, SkipWs(body, match.end))

\* the while loop of processWhenConditions; whenHeaderRegex ends with \s*, so
\* its lastIndex is the end of the white space after the value
WhenLoop(body, props, from, cursor, out) ==
  WhenStep(body, props, cursor, out, ExecWhen(body, from))

\* the body as it is, no when construct evaluated
WhenUnevaluated(body, props) == body

processWhenConditions(body, props) == WhenLoop(body, props, 1, 1, "")

(* ----------------------------- processVariables ------------------------ *)

RECURSIVE ReplaceVar(_, _, _, _)
\* processed.replace(new RegExp(escapeForRegex(`$${key}`) + `(?![a-zA-Z0-9_-])`, 'g'), value)
ReplaceVar(processed, key, value, from) ==
  LET i   == IndexOf(processed, "$" \o key, from)
      end == i + 1 + Len(key)
  IN IF i = 0 THEN SliceFrom(processed, from)
     ELSE IF Ch(processed, end) \in IdChars
     THEN Slice(processed, from, i + 1) \o ReplaceVar(processed, key, value, i + 1)
     ELSE Slice(processed, from, i) \o value \o ReplaceVar(processed, key, value, end)

RECURSIVE RemoveVars(_, _)
\* processed.replace(/\$([a-zA-Z0-9_-]+)/g, '')
RemoveVars(processed, from) ==
  LET i == IndexOf(processed, "$", from)
      e == RunEnd(processed, i + 1)
  IN IF i = 0 THEN SliceFrom(processed, from)
     ELSE IF e = i + 1
     THEN Slice(processed, from, i + 1) \o RemoveVars(processed, i + 1)
     ELSE Slice(processed, from, i) \o RemoveVars(processed, e)

RECURSIVE ReplaceEach(_, _)
\* the for loop over Object.entries(mergedProps)
ReplaceEach(processed, mergedProps) ==
  IF Len(mergedProps) = 0 THEN processed
  ELSE ReplaceEach(ReplaceVar(processed, Head(mergedProps).name,
                              Head(mergedProps).value, 1),
                   Tail(mergedProps))

processVariables(body, mergedProps) == RemoveVars(ReplaceEach(body, mergedProps), 1)

(* --------------------------------- buildAst ---------------------------- *)

RECURSIVE RulesOf(_)
\* remainder.split(';').map(r => r.trim()).filter(Boolean), each with ';' appended
RulesOf(parts) ==
  IF Len(parts) = 0 THEN <<>>
  ELSE (IF Trim(Head(parts)) = "" THEN <<>> ELSE <<Trim(Head(parts)) \o ";">>)
       \o RulesOf(Tail(parts))

RECURSIVE BuildLoop(_, _, _)
\* the while loop of buildAst from position i0, root being the node built so
\* far.  err = TRUE stands for the TypeError of body.length on a null body,
\* thrown when extractBlock returns block: null.
BuildLoop(body, i0, root) ==
  LET i == SkipWs(body, i0)
      nextBrace     == IndexOf(body, "{", i)
      nextSemicolon == IndexOf(body, ";", i)
  IN IF i > Len(body) THEN root
     ELSE IF nextSemicolon # 0 /\ (nextSemicolon < nextBrace \/ nextBrace = 0)
     THEN LET rule == Trim(Slice(body, i, nextSemicolon))
          IN BuildLoop(body, nextSemicolon + 1,
               IF rule # "" THEN [root EXCEPT !.rules = Append(@, rule \o ";")] ELSE root)
     ELSE IF nextBrace = 0
     THEN [root EXCEPT !.rules = @ \o RulesOf(SplitOn(Trim(SliceFrom(body, i)), ";"))]
     ELSE LET selector == Trim(Slice(body, i, nextBrace))
              blk      == extractBlock(body, nextBrace)
              innerAst == BuildLoop(blk.block, 1,
                            [err |-> FALSE, selector |-> "", rules |-> <<>>, children |-> <<>>])
          IN IF ~blk.ok \/ innerAst.err THEN [root EXCEPT !.err = TRUE]
             ELSE BuildLoop(body, blk.end,
                    [root EXCEPT !.children = Append(@,
                       [err |-> FALSE, selector |-> selector,
                        rules |-> innerAst.rules, children |-> innerAst.children])])

\* the root has selector: null, modelled as ""
buildAst(body) ==
  BuildLoop(body, 1, [err |-> FALSE, selector |-> "", rules |-> <<>>, children |-> <<>>])

(* ----------------------------- generateCssFromAst ---------------------- *)

RECURSIVE TrimmedParts(_)
\* selector.split(',').map(s => s.trim()).filter(Boolean)
TrimmedParts(parts) ==
  IF Len(parts) = 0 THEN <<>>
  ELSE (IF Trim(Head(parts)) = "" THEN <<>> ELSE <<Trim(Head(parts))>>)
       \o TrimmedParts(Tail(parts))

\* every part joined to the parent selector with one space
JoinedWithSpace(pSel, part) == pSel \o " " \o part

\* the body of the loops over parentSelectors and parts
CombineOne(pSel, part) ==
  IF Includes(part, "&") THEN ReplaceAll(part, "&", pSel)
  ELSE IF StartsWithAt(part, 1, ":") THEN pSel \o part
  ELSE IF StartsWithAt(part, 1, ">") THEN pSel \o " " \o part
  ELSE IF StartsWithAt(part, 1, "[") THEN pSel \o part
  ELSE IF StartsWithAt(part, 1, ".") \/ StartsWithAt(part, 1, "#") THEN pSel \o " " \o part
  ELSE pSel \o " " \o part

RECURSIVE CombineParts(_, _)
CombineParts(pSel, parts) ==
  IF Len(parts) = 0 THEN <<>>
  ELSE <<CombineOne(pSel, Head(parts))>> \o CombineParts(pSel, Tail(parts))

RECURSIVE CombineParents(_, _)
CombineParents(parentSelectors, parts) ==
  IF Len(parentSelectors) = 0 THEN <<>>
  ELSE CombineParts(Head(parentSelectors), parts)
       \o CombineParents(Tail(parentSelectors), parts)

combineSelectors(parentSelectors, selector) ==
  CombineParents(parentSelectors, TrimmedParts(SplitOn(selector, ",")))

RECURSIVE IndentAll(_)
\* for (const r of rules) lines.push(`  ${r}`)
IndentAll(rules) ==
  IF Len(rules) = 0 THEN <<>> ELSE <<"  " \o Head(rules)>> \o IndentAll(Tail(rules))

RECURSIVE emitNode(_, _)
RECURSIVE EmitAll(_, _)
\* the lines pushed by emitNode(node, parentSelectors)
emitNode(node, parentSelectors) ==
  LET sel == Trim(node.selector)
      finalSelectors == IF sel # "" THEN combineSelectors(parentSelectors, sel)
                        ELSE parentSelectors
  IN (IF Len(node.rules) > 0
      THEN <<JoinWith(finalSelectors, ", ") \o " {">> \o IndentAll(node.rules) \o <<"}">>
      ELSE <<>>)
     \o EmitAll(node.children, finalSelectors)

EmitAll(children, parentSelectors) ==
  IF Len(children) = 0 THEN <<>>
  ELSE emitNode(Head(children), parentSelectors) \o EmitAll(Tail(children), parentSelectors)

generateCssFromAst(ast, className) ==
  LET own == IF Len(ast.rules) > 0
             THEN <<"." \o className \o " {">> \o IndentAll(ast.rules) \o <<"}">>
             ELSE <<>>
  IN JoinWith(own \o EmitAll(ast.children, <<"." \o className>>), "\n\n")

(* -------------------------- processComponentInstance ------------------- *)

\* err: buildAst threw; css: the returned text; log: the logger calls
CssOf(ast, className, log) ==
  [err |-> ast.err,
   css |-> IF ast.err THEN "" ELSE Trim(generateCssFromAst(ast, className)),
   log |-> log]

\* steps 2 to 4 of processComponentInstance, mp being the merged props and the
\* log of buildMergedProps
GenerateWith(component, className, mp) ==
  CssOf(buildAst(processVariables(processWhenConditions(component.body, mp.merged),
                                  mp.merged)),
        className, mp.log)

processComponentInstance(component, instance, className) ==
  GenerateWith(component, className,
               buildMergedProps(component.params, instance.props, component.name,
                                instance.instanceName))

(* ------------------- comments, @import lines, normalizeCss ------------- *)

RECURSIVE StripComments(_, _)
\* s.replace(/\/\*[\s\S]*?\*\//g, '') from position from on
StripComments(s, from) ==
  LET i == IndexOf(s, "/*", from)
      e == IndexOf(s, "*/", i + 2)
  IN IF i = 0 \/ e = 0 THEN SliceFrom(s, from)
     ELSE Slice(s, from, i) \o StripComments(s, e + 2)

stripCssComments(cssContent) == Trim(StripComments(cssContent, 1))

\* the starts of the matches of /^\s*@import[^\n]*$/gmi at or after from: the
\* starts of lines where white space (which may run over line ends) is
\* followed by @import
ImportLineStarts(content, from) ==
  {i \in from..Len(content) :
     /\ (i = 1 \/ Ch(content, i - 1) = "\n")
     /\ toLowerCase(Slice(content, SkipWs(content, i), SkipWs(content, i) + 7)) = "@import"}

RECURSIVE StripImportLines(_, _)
StripImportLines(content, from) ==
  LET starts == ImportLineStarts(content, from)
      i      == Min(starts)
      nl     == IndexOf(content, "\n", SkipWs(content, i))
      eol    == IF nl = 0 THEN Len(content) + 1 ELSE nl
  IN IF starts = {} THEN SliceFrom(content, from)
     ELSE Slice(content, from, i) \o StripImportLines(content, eol)

stripImportStatements(content) ==
  IF content = "" THEN "" ELSE Trim(StripImportLines(content, 1))

\* out.split('\n').map(line => line.replace(/[ \t]+$/g, '')).join('\n'): the
\* positions of the blanks and tabs that run up to a line end
TrailingBlanks(s) ==
  {k \in 1..Len(s) :
     /\ Ch(s, k) \in {" ", "\t"}
     /\ LET e == ClassEnd(s, k, {" ", "\t"}) IN e = Len(s) + 1 \/ Ch(s, e) = "\n"}

RECURSIVE DropPositions(_, _, _)
\* s without the characters at the positions in drop, from position from on
DropPositions(s, from, drop) ==
  LET later == {k \in drop : k >= from}
      d     == Min(later)
      kept  == {k \in d..(Len(s) + 1) : k \notin drop}
  IN IF later = {} THEN SliceFrom(s, from)
     ELSE Slice(s, from, d) \o DropPositions(s, Min(kept), drop)

RECURSIVE CollapseNewlines(_, _)
\* out.replace(/\n{3,}/g, '\n\n')
CollapseNewlines(s, from) ==
  LET i == IndexOf(s, "\n\n\n", from)
  IN IF i = 0 THEN SliceFrom(s, from)
     ELSE Slice(s, from, i) \o "\n\n" \o CollapseNewlines(s, ClassEnd(s, i, {"\n"}))

\* the positions of the line feeds among the positions a .. b-1
NewlinesIn(s, a, b) == {k \in a..(b - 1) : Ch(s, k) = "\n"}

RECURSIVE AfterOpen(_, _)
\* out.replace(/\{\s*\n+/g, '{\n'): the match runs to the last line feed of the
\* white space after '{'
AfterOpen(s, from) ==
  LET i  == IndexOf(s, "{", from)
      nl == NewlinesIn(s, i + 1, SkipWs(s, i + 1))
  IN IF i = 0 THEN SliceFrom(s, from)
     ELSE IF nl = {} THEN Slice(s, from, i + 1) \o AfterOpen(s, i + 1)
     ELSE Slice(s, from, i) \o "{\n" \o AfterOpen(s, Max(nl) + 1)

\* the start of the white space that ends just before position c
WsStart(s, c) == 1 + Max({k \in 0..(c - 1) : k = 0 \/ ~isWhitespace(Ch(s, k))})

RECURSIVE BeforeClose(_, _)
\* out.replace(/\n+\s*\}/g, '\n}'): the match starts at the first line feed, not
\* before from, of the white space before '}'
BeforeClose(s, from) ==
  LET c  == IndexOf(s, "}", from)
      nl == NewlinesIn(s, IF WsStart(s, c) < from THEN from ELSE WsStart(s, c), c)
  IN IF c = 0 THEN SliceFrom(s, from)
     ELSE IF nl = {} THEN Slice(s, from, c + 1) \o BeforeClose(s, c + 1)
     ELSE Slice(s, from, Min(nl)) \o "\n}" \o BeforeClose(s, c + 1)

RECURSIVE AfterSemicolon(_, _)
\* out.replace(/;\n\s*\n\s*/g, ';\n  ')
AfterSemicolon(s, from) ==
  LET i == IndexOf(s, ";\n", from)
      w == SkipWs(s, i + 2)
  IN IF i = 0 THEN SliceFrom(s, from)
     ELSE IF NewlinesIn(s, i + 2, w) = {} THEN Slice(s, from, i + 1) \o AfterSemicolon(s, i + 1)
     ELSE Slice(s, from, i) \o ";\n  " \o AfterSemicolon(s, w)

RECURSIVE BetweenBlocks(_, _)
\* out.replace(/\}\n\s*\n\s*\./g, '}\n\n.')
BetweenBlocks(s, from) ==
  LET i == IndexOf(s, "}\n", from)
      w == SkipWs(s, i + 2)
  IN IF i = 0 THEN SliceFrom(s, from)
     ELSE IF NewlinesIn(s, i + 2, w) = {} \/ Ch(s, w) # "."
     THEN Slice(s, from, i + 1) \o BetweenBlocks(s, i + 1)
     ELSE Slice(s, from, i) \o "}\n\n." \o BetweenBlocks(s, w + 1)

normalizeCss(css) ==
  IF css = "" THEN ""
  ELSE LET s1 == ReplaceAll(ReplaceAll(css, "\r\n", "\n"), "\r", "\n")
           s2 == StripComments(s1, 1)
           s3 == DropPositions(s2, 1, TrailingBlanks(s2))
           s4 == CollapseNewlines(s3, 1)
           s5 == BeforeClose(AfterOpen(s4, 1), 1)
           s6 == AfterSemicolon(s5, 1)
           s7 == BetweenBlocks(s6, 1)
           out == Trim(s7)
       IN IF out # "" THEN out \o "\n" ELSE ""

(* ------------------------------ analyzeContent ------------------------- *)

\* indexToLineCol(text, pos - 1)
indexToLineCol(text, pos) ==
  LET nl == NewlinesIn(text, 1, pos)
  IN [line |-> Cardinality(nl) + 1,
      column |-> pos - (IF nl = {} THEN 0 ELSE Max(nl))]

Issue(severity, message, pos) ==
  [severity |-> severity, message |-> message, line |-> pos.line, column |-> pos.column]

RECURSIVE SortedSeq(_)
\* the elements of a set of numbers in ascending order
SortedSeq(S) ==
  IF S = {} THEN <<>> ELSE <<Min(S)>> \o SortedSeq(S \ {Min(S)})

RECURSIVE BraceLoop(_, _, _, _)
\* the for loop of scanBraces over the positions of the braces, in order
BraceLoop(content, braces, stack, unmatchedCloses) ==
  IF Len(braces) = 0 THEN [unmatchedOpens |-> stack, unmatchedCloses |-> unmatchedCloses]
  ELSE IF Ch(content, Head(braces)) = "{"
  THEN BraceLoop(content, Tail(braces), Append(stack, Head(braces)), unmatchedCloses)
  ELSE IF Len(stack) = 0
  THEN BraceLoop(content, Tail(braces), stack, Append(unmatchedCloses, Head(braces)))
  ELSE BraceLoop(content, Tail(braces), SubSeq(stack, 1, Len(stack) - 1), unmatchedCloses)

scanBraces(content) ==
  BraceLoop(content,
            SortedSeq({k \in 1..Len(content) : Ch(content, k) \in {"{", "}"}}),
            <<>>, <<>>)

RECURSIVE CloseIssues(_, _)
CloseIssues(content, idxs) ==
  IF Len(idxs) = 0 THEN <<>>
  ELSE LET pos == indexToLineCol(content, Head(idxs))
       IN <<Issue("error", "Unmatched closing '}' at line " \o ToString(pos.line)
                   \o ", column " \o ToString(pos.column) \o ".", pos)>>
          \o CloseIssues(content, Tail(idxs))

RECURSIVE OpenIssues(_, _)
OpenIssues(content, idxs) ==
  IF Len(idxs) = 0 THEN <<>>
  ELSE LET pos == indexToLineCol(content, Head(idxs))
       IN <<Issue("error", "Unclosed block starting at line " \o ToString(pos.line)
                   \o ", column " \o ToString(pos.column) \o " (missing '}' ).", pos)>>
          \o OpenIssues(content, Tail(idxs))

\* [a-zA-Z0-9_], the characters with no \b between them
WordChars == Letters \cup Digits \cup {"_"}

RECURSIVE HeaderIssues(_, _)
\* the loop over compKeywordRegex = /component\b/g (the back quotes of the two
\* messages are written as single quotes)
HeaderIssues(content, from) ==
  LET found == {i \in from..Len(content) :
                  /\ StartsWithAt(content, i, "component")
                  /\ Ch(content, i + 9) \notin WordChars}
      start == Min(found)
      parenOpen  == IndexOf(content, "(", start)
      braceOpen  == IndexOf(content, "{", start)
      parenClose == IndexOf(content, ")", parenOpen)
  IN IF found = {} THEN <<>>
     ELSE (IF parenOpen = 0 \/ parenOpen > braceOpen
           THEN <<Issue("error",
                    "Malformed component header: missing parameter list '(...)' before '{'.",
                    indexToLineCol(content, start))>>
           ELSE IF parenClose = 0 \/ parenClose > braceOpen
           THEN <<Issue("error",
                    "Malformed component header: missing closing ')' for parameter list.",
                    indexToLineCol(content, parenOpen))>>
           ELSE <<>>)
          \o HeaderIssues(content, start + 9)

HasParam(comp, name) == \E i \in 1..Len(comp.params) : comp.params[i].name = name

\* content.indexOf(comp.body)
BodyPos(content, comp) == IndexOf(content, comp.body, 1)

\* content.indexOf(x) + (y.indexOf(z) >= 0 ? y.indexOf(z) : 0), as a position
Offset(base, idx) == base + (IF idx > 0 THEN idx - 1 ELSE 0)

\* the duplicate params loop: one issue for each parameter whose name was seen
DuplicateIssues(content, comp) ==
  LET headerIndex == IndexOf(content, "component " \o comp.name, 1)
      pos == indexToLineCol(content, IF headerIndex > 0 THEN headerIndex ELSE 1)
      dup == [i \in 1..Len(comp.params) |->
                \E j \in 1..(i - 1) : comp.params[j].name = comp.params[i].name]
      One(i) == IF dup[i]
                THEN <<Issue("error", "Duplicate parameter '" \o comp.params[i].name
                         \o "' in component " \o comp.name \o ".", pos)>>
                ELSE <<>>
      F[i \in 0..Len(comp.params)] == IF i = 0 THEN <<>> ELSE F[i - 1] \o One(i)
  IN F[Len(comp.params)]

RECURSIVE UsedVars(_, _, _)
\* the names matched by /\$([a-zA-Z0-9_-]+)/g, each once, in order of first use
UsedVars(body, from, used) ==
  LET i == IndexOf(body, "$", from)
      e == RunEnd(body, i + 1)
      u == Slice(body, i + 1, e)
  IN IF i = 0 THEN used
     ELSE IF e = i + 1 THEN UsedVars(body, i + 1, used)
     ELSE UsedVars(body, e, IF \E k \in 1..Len(used) : used[k] = u THEN used
                            ELSE Append(used, u))

RECURSIVE UndeclaredIssues(_, _, _)
UndeclaredIssues(content, comp, used) ==
  IF Len(used) = 0 THEN <<>>
  ELSE LET u == Head(used)
           idx == IndexOf(comp.body, "$" \o u, 1)
       IN (IF ~HasParam(comp, u)
           THEN <<Issue("warning", "Variable '$" \o u \o "' used in component '"
                    \o comp.name \o "' but not declared as parameter.",
                    indexToLineCol(content, Offset(BodyPos(content, comp), idx)))>>
           ELSE <<>>)
          \o UndeclaredIssues(content, comp, Tail(used))

RECURSIVE WhenIssues(_, _, _)
\* the when checks loop
WhenIssues(content, comp, from) ==
  LET wh == ExecWhen(comp.body, from)
  IN IF ~wh.ok THEN <<>>
     ELSE (IF ~HasParam(comp, wh.varName)
           THEN <<Issue("error", "when condition references unknown variable '$"
                    \o wh.varName \o "' in component '" \o comp.name \o "'.",
                    indexToLineCol(content, BodyPos(content, comp) + wh.index - 1))>>
           ELSE <<>>)
          \o WhenIssues(content, comp, wh.end)

RECURSIVE RuleIssues(_, _, _)
\* the for loop of checkRules over node.rules
RuleIssues(content, comp, rules) ==
  IF Len(rules) = 0 THEN <<>>
  ELSE LET ruleTrim == Trim(Head(rules))
           pos  == indexToLineCol(content,
                     Offset(BodyPos(content, comp), IndexOf(comp.body, ruleTrim, 1)))
           colon == IndexOf(ruleTrim, ":", 1)
           prop == Trim(Slice(ruleTrim, 1, colon))
           valAndSemi == Trim(SliceFrom(ruleTrim, colon + 1))
           val  == Trim(IF valAndSemi # "" /\ Ch(valAndSemi, Len(valAndSemi)) = ";"
                        THEN Slice(valAndSemi, 1, Len(valAndSemi)) ELSE valAndSemi)
       IN (IF colon = 0
           THEN <<Issue("error", "Malformed CSS rule '" \o ruleTrim \o "' in component '"
                    \o comp.name \o "'.", pos)>>
           ELSE IF val = ""
           THEN <<Issue("error", "Empty value for property '" \o prop
                    \o "' in component '" \o comp.name \o "'.", pos)>>
           ELSE <<>>)
          \o RuleIssues(content, comp, Tail(rules))

RECURSIVE checkRules(_, _, _)
RECURSIVE CheckChildren(_, _, _)
checkRules(content, comp, node) ==
  RuleIssues(content, comp, node.rules) \o CheckChildren(content, comp, node.children)

CheckChildren(content, comp, children) ==
  IF Len(children) = 0 THEN <<>>
  ELSE checkRules(content, comp, Head(children))
       \o CheckChildren(content, comp, Tail(children))

\* 4) Per-component checks, for one component
ComponentIssues(content, comp) ==
  LET ast == buildAst(comp.body)
  IN DuplicateIssues(content, comp)
     \o UndeclaredIssues(content, comp, UsedVars(comp.body, 1, <<>>))
     \o WhenIssues(content, comp, 1)
     \o (IF ast.err
         THEN <<Issue("error", "Failed building AST for component " \o comp.name
                  \o ": TypeError", indexToLineCol(content, BodyPos(content, comp)))>>
         ELSE checkRules(content, comp, ast))

RECURSIVE AllComponentIssues(_, _)
AllComponentIssues(content, comps) ==
  IF Len(comps) = 0 THEN <<>>
  ELSE ComponentIssues(content, Head(comps)) \o AllComponentIssues(content, Tail(comps))

RECURSIVE UnknownPropIssues(_, _, _, _)
UnknownPropIssues(content, comp, inst, props) ==
  IF Len(props) = 0 THEN <<>>
  ELSE LET propName == Head(props).name
           idx == IndexOf(inst.rawBody, "$" \o propName, 1)
       IN (IF ~HasParam(comp, propName)
           THEN <<Issue("warning", "Instance '" \o inst.componentName \o "."
                    \o inst.instanceName \o "' defines unknown prop '$" \o propName \o "'.",
                    indexToLineCol(content, Offset(IndexOf(content, inst.rawBody, 1), idx)))>>
           ELSE <<>>)
          \o UnknownPropIssues(content, comp, inst, Tail(props))

\* components.find(c => c.name === name): the first one of that name
FindComponent(components, name) ==
  components[Min({i \in 1..Len(components) : components[i].name = name})]

RECURSIVE InstanceIssues(_, _, _)
\* 5) Instances checks
InstanceIssues(content, components, instances) ==
  IF Len(instances) = 0 THEN <<>>
  ELSE LET inst == Head(instances)
           known == \E i \in 1..Len(components) : components[i].name = inst.componentName
       IN (IF ~known
           THEN IF Len(components) = 0 THEN <<>>
                ELSE <<Issue("error", "Instance refers to unknown component '"
                         \o inst.componentName \o "'.",
                         indexToLineCol(content, IndexOf(content, inst.rawBody, 1)))>>
           ELSE UnknownPropIssues(content, FindComponent(components, inst.componentName),
                                  inst, inst.props))
          \o InstanceIssues(content, components, Tail(instances))

\* the order of issues.sort: errors first, then by line, then by column
IssueBefore(a, b) ==
  LET sev(x) == IF x.severity = "error" THEN 0 ELSE 1
  IN \/ sev(a) < sev(b)
     \/ sev(a) = sev(b) /\ a.line < b.line
     \/ sev(a) = sev(b) /\ a.line = b.line /\ a.column < b.column

RECURSIVE InsertIssue(_, _)
\* the sort is stable: an issue goes after those that are not after it
InsertIssue(sorted, x) ==
  IF Len(sorted) = 0 THEN <<x>>
  ELSE IF IssueBefore(x, Head(sorted)) THEN <<x>> \o sorted
  ELSE <<Head(sorted)>> \o InsertIssue(Tail(sorted), x)

RECURSIVE SortIssues(_, _)
SortIssues(issues, sorted) ==
  IF Len(issues) = 0 THEN sorted
  ELSE SortIssues(Tail(issues), InsertIssue(sorted, Head(issues)))

Diagnose(content, braces, components) ==
  SortIssues(CloseIssues(content, braces.unmatchedCloses)
             \o OpenIssues(content, braces.unmatchedOpens)
             \o HeaderIssues(content, 1)
             \o AllComponentIssues(content, components)
             \o InstanceIssues(content, components, parseComponentInstances(content)),
             <<>>)

analyzeContent(content) ==
  Diagnose(content, scanBraces(content), parseComponentDefinition(content))

(* --------------------------------- paths ------------------------------- *)

RECURSIVE NormalizeSegments(_, _)
\* the segments of a path with '.', '' and '..' resolved, as path.resolve does
NormalizeSegments(segs, acc) ==
  IF Len(segs) = 0 THEN acc
  ELSE IF Head(segs) \in {"", "."} THEN NormalizeSegments(Tail(segs), acc)
  ELSE IF Head(segs) = ".."
  THEN NormalizeSegments(Tail(segs),
         IF Len(acc) = 0 THEN acc ELSE SubSeq(acc, 1, Len(acc) - 1))
  ELSE NormalizeSegments(Tail(segs), Append(acc, Head(segs)))

\* path.resolve(baseDir, importPath), baseDir being absolute
PathResolve(baseDir, importPath) ==
  "/" \o JoinWith(NormalizeSegments(
           SplitOn(IF StartsWithAt(importPath, 1, "/") THEN importPath
                   ELSE baseDir \o "/" \o importPath, "/"), <<>>), "/")

\* path.dirname(p) of an absolute, normalized path
PathDirname(p) ==
  LET segs == NormalizeSegments(SplitOn(p, "/"), <<>>)
  IN "/" \o JoinWith(SubSeq(segs, 1, Len(segs) - 1), "/")

\* s.endsWith(suffix)
EndsWith(s, suffix) ==
  Len(s) >= Len(suffix) /\ SliceFrom(s, Len(s) - Len(suffix) + 1) = suffix

(* ------------------------------ IMPORT_REGEX --------------------------- *)

\* IMPORT_REGEX = /@import\s+['"]([^'"]+)['"]\s*;?/g tried at position i
MatchImport(s, i) ==
  LET j  == SkipWs(s, i + 7)
      pe == ClassEnd(s, j + 1, {Ch(s, k) : k \in 1..Len(s)} \ {"'", "\""})
      w  == SkipWs(s, pe + 1)
      ok == /\ StartsWithAt(s, i, "@import")
            /\ j > i + 7
            /\ IsQuote(Ch(s, j))
            /\ pe > j + 1
            /\ IsQuote(Ch(s, pe))
  IN IF ok
     THEN [ok |-> TRUE, index |-> i, path |-> Slice(s, j + 1, pe),
           end |-> IF Ch(s, w) = ";" THEN w + 1 ELSE w,
           text |-> Slice(s, i, IF Ch(s, w) = ";" THEN w + 1 ELSE w)]
     ELSE [ok |-> FALSE, index |-> 0, path |-> "", end |-> 0, text |-> ""]

RECURSIVE ExecImportFrom(_, _)
ExecImportFrom(s, from) ==
  LET i == IndexOf(s, "@import", from)
  IN IF i = 0 THEN MatchImport(s, 0)
     ELSE IF MatchImport(s, i).ok THEN MatchImport(s, i)
     ELSE ExecImportFrom(s, i + 1)

\* IMPORT_REGEX.exec(s) when IMPORT_REGEX.lastIndex = li: the search starts at
\* the 0-based index li, and fails when li is beyond the end of s
ExecImport(s, li) ==
  IF li > Len(s) THEN MatchImport(s, 0) ELSE ExecImportFrom(s, li + 1)

\* IMPORT_REGEX.lastIndex after that exec: the end of the match, 0 after a failure
LastIndexAfter(match) == IF match.ok THEN match.end - 1 ELSE 0

\* let importPath = match[1].trim(); the extension is appended when absent
ImportPathOf(match) ==
  IF EndsWith(Trim(match.path), ".axcss") THEN Trim(match.path)
  ELSE Trim(match.path) \o ".axcss"

\* the locals of one call of resolveImportsRecursively(content, baseDir, visited);
\* match, importPath and fullPath are those of the directive it is importing
CallFrame(content, baseDir) ==
  [result |-> content, baseDir |-> baseDir, match |-> "", importPath |-> "",
   fullPath |-> ""]

\* visited.add(fullPath) without effect
KeepVisited(visited, fullPath) == visited

\* visited.add(fullPath)
MarkVisited(visited, fullPath) == visited \cup {fullPath}

\* the warning of the catch block; e.message is the message of the ENOENT error
\* of fs.readFile
FailedImportLog(importPath, fullPath) ==
  LogEntry("warning", " Failed to import \"" \o importPath
             \o "\": ENOENT: no such file or directory, open '" \o fullPath \o "'")

(* ------------------------------ state ---------------------------------- *)

\* files:     the file system, a function from absolute paths to contents
\* lastIndex: IMPORT_REGEX.lastIndex, the one regular expression object that all
\*            calls of resolveImportsRecursively share
\* running:   the call of processFile whose code is on the JavaScript stack now,
\*            0 when every call is suspended at an await of fs.readFile
\* task:      the calls of processFile, each with its position and its locals
VARIABLES files, lastIndex, running, task

\* watching: startDev has registered scheduleBuild for the events of the watcher
\* timeout:   the module variable timeout of dev.js: the identifier of the last
\*            timer that setTimeout returned, 0 while it is undefined
\* timers:    the timers of the event loop that wait to fire, each with its
\*            identifier and the time in ms it is due at
\* clock:     the time in ms
\* builds:    the calls of build that have been made and have not settled, named
\*            by the timer whose callback made them
\* events:    the events the watcher has emitted
VARIABLES watching, timeout, timers, clock, builds, events

devVars == <<watching, timeout, timers, clock, builds, events>>

compileVars == <<files, lastIndex, running, task>>

vars == <<files, lastIndex, running, task, watching, timeout, timers, clock, builds, events>>

\* the command dev has not been run
NoDev ==
  /\ watching = FALSE
  /\ timeout = 0
  /\ timers = {}
  /\ clock = 0
  /\ builds = {}
  /\ events = <<>>

\* a call of processFile(filePath) that has not been made yet
IdleTask(filePath) ==
  [pc |-> "idle", filePath |-> filePath, plainCSS |-> "", frames |-> <<>>,
   visited |-> {}, resolvedContent |-> "", blocks |-> <<>>, css |-> "", error |-> "",
   log |-> <<>>]

(* ------------------------------ processFile ---------------------------- *)

\* processFile(filePath) is called and runs up to its first await
Call(t) ==
  /\ running = 0
  /\ task[t].pc = "idle"
  /\ task' = [task EXCEPT ![t].pc = "read1"]
  /\ UNCHANGED <<files, lastIndex, running>>

RECURSIVE FatalMessages(_)
\* fatal.map(f => `${f.message} (line ${f.line}:${f.column})`)
FatalMessages(issues) ==
  IF Len(issues) = 0 THEN <<>>
  ELSE (IF Head(issues).severity = "error"
        THEN <<Head(issues).message \o " (line " \o ToString(Head(issues).line) \o ":"
               \o ToString(Head(issues).column) \o ")">>
        ELSE <<>>)
       \o FatalMessages(Tail(issues))

RECURSIVE WarningLogs(_)
\* the logger.warning calls for the warnings of the analyzer
WarningLogs(issues) ==
  IF Len(issues) = 0 THEN <<>>
  ELSE (IF Head(issues).severity = "warning"
        THEN <<LogEntry("warning", Head(issues).message \o " (line "
                 \o ToString(Head(issues).line) \o ":" \o ToString(Head(issues).column) \o ")")>>
        ELSE <<>>)
       \o WarningLogs(Tail(issues))

\* the Error thrown by processFile when the analyzer reports errors
SyntaxErrorMessage(issues) ==
  "Syntax errors found:\n" \o JoinWith(FatalMessages(issues), "\n")

\* the logger.error call of the catch block of processFile
ErrorLog(filePath) == LogEntry("error", "Error processing file " \o filePath \o ":")

\* step 1 of processFile: the plain CSS of the entry file
PlainCssOf(content) ==
  normalizeCss(stripCssComments(stripImportStatements(
    stripComponentAndInstanceBlocks(content))))

\* steps 0 and 1 of processFile on the content read, issues being what the
\* analyzer reports on it
Gate(call, content, issues) ==
  IF FatalMessages(issues) # <<>>
  THEN [call EXCEPT !.pc = "failed",
                    !.error = SyntaxErrorMessage(issues),
                    !.log = Append(@, ErrorLog(call.filePath))]
  ELSE [call EXCEPT !.pc = "read2",
                    !.log = @ \o WarningLogs(issues),
                    !.plainCSS = PlainCssOf(content)]

\* the first fs.readFile(filePath) completes: the analyzer runs, then the plain
\* CSS is computed, up to the second await
ReadEntry(t) ==
  /\ running = 0
  /\ task[t].pc = "read1"
  /\ task' = [task EXCEPT ![t] =
       IF task[t].filePath \notin DOMAIN files
       THEN [task[t] EXCEPT !.pc = "failed", !.error = "ENOENT",
                            !.log = Append(@, ErrorLog(task[t].filePath))]
       ELSE Gate(task[t], files[task[t].filePath],
                 analyzeContent(files[task[t].filePath]))]
  /\ UNCHANGED <<files, lastIndex, running>>

\* the second fs.readFile(filePath) completes: resolveImportsRecursively is
\* called with the raw content, the directory of the file and a new visited set
ReadEntryAgain(t) ==
  /\ running = 0
  /\ task[t].pc = "read2"
  /\ task' = [task EXCEPT ![t].pc = "loop",
                          ![t].frames = <<CallFrame(files[task[t].filePath],
                                                    PathDirname(task[t].filePath))>>]
  /\ running' = t
  /\ UNCHANGED <<files, lastIndex>>

(* ----------------------- resolveImportsRecursively --------------------- *)

\* the innermost call of resolveImportsRecursively
Top(t) == task[t].frames[Len(task[t].frames)]

SetTop(t, frame) == [task[t].frames EXCEPT ![Len(task[t].frames)] = frame]

\* One evaluation of the while condition and, on a match, the body up to the
\* continue or to the await of fs.readFile.
ImportMatch(t) ==
  /\ running = t
  /\ task[t].pc = "loop"
  /\ LET match == ExecImport(Top(t).result, lastIndex)
         importPath == ImportPathOf(match)
         fullPath == PathResolve(Top(t).baseDir, importPath)
     IN /\ match.ok
        /\ lastIndex' = LastIndexAfter(match)
        /\ IF fullPath \in task[t].visited
           THEN /\ task' = [task EXCEPT ![t].frames = SetTop(t,
                              [Top(t) EXCEPT !.result = ReplaceFirst(@, match.text, "")])]
                /\ UNCHANGED running
           ELSE /\ task' = [task EXCEPT ![t].visited = MarkVisited(@, fullPath),
                                        ![t].pc = "readImport",
                                        ![t].frames = SetTop(t,
                                           [Top(t) EXCEPT !.match = match.text,
                                                          !.importPath = importPath,
                                                          !.fullPath = fullPath])]
                /\ running' = 0
  /\ UNCHANGED files

\* fs.readFile(fullPath) completes.  With the file read, the recursive call
\* starts on its content; when the read fails, the catch block logs a warning
\* and the directive is replaced by the empty string.
ReadImport(t) ==
  /\ running = 0
  /\ task[t].pc = "readImport"
  /\ IF Top(t).fullPath \in DOMAIN files
     THEN task' = [task EXCEPT ![t].pc = "loop",
                     ![t].frames = Append(@, CallFrame(files[Top(t).fullPath],
                                                       PathDirname(Top(t).fullPath)))]
     ELSE task' = [task EXCEPT ![t].pc = "loop",
                     ![t].log = Append(@, FailedImportLog(Top(t).importPath,
                                                          Top(t).fullPath)),
                     ![t].frames = SetTop(t,
                        [Top(t) EXCEPT !.result = ReplaceFirst(@, Top(t).match, "")])]
  /\ running' = t
  /\ UNCHANGED <<files, lastIndex>>

\* exec finds no directive: the call returns its result.  The caller, if there
\* is one, replaces its directive by the returned text and goes on with its own
\* loop; the outermost call returns the resolved content to processFile.
ImportReturn(t) ==
  /\ running = t
  /\ task[t].pc = "loop"
  /\ ~ExecImport(Top(t).result, lastIndex).ok
  /\ lastIndex' = 0
  /\ LET n == Len(task[t].frames)
         caller == task[t].frames[n - 1]
     IN IF n = 1
        THEN task' = [task EXCEPT ![t].pc = "generate",
                                  ![t].resolvedContent = Top(t).result,
                                  ![t].frames = <<>>]
        ELSE task' = [task EXCEPT ![t].frames = Append(SubSeq(@, 1, n - 2),
                        [caller EXCEPT !.result =
                           ReplaceFirst(@, caller.match, Top(t).result)])]
  /\ UNCHANGED <<files, running>>

(* ------------------------ processFile, steps 2 to 4 -------------------- *)

\* components.get(name) after components.set(def.name, def) for every
\* definition in order: the last definition of that name
HasComponent(defs, name) == \E i \in 1..Len(defs) : defs[i].name = name

GetComponent(defs, name) == defs[Max({i \in 1..Len(defs) : defs[i].name = name})]

\* the base name as it is, whatever names are in use
BaseName(base, usedClassNames) == base

\* while (usedClassNames.has(unique)) unique = `${base}-${counter++}`
UniqueName(base, usedClassNames) ==
  IF base \notin usedClassNames THEN base
  ELSE base \o "-" \o ToString(Min({n \in 1..(Cardinality(usedClassNames) + 1) :
                                      (base \o "-" \o ToString(n)) \notin usedClassNames}))

\* the end of the body of the for loop: the cleaned CSS of the instance is
\* appended under its label, or a warning is logged when it is empty
Collect(acc, instance, unique, log, instanceCSS) ==
  IF instanceCSS # ""
  THEN [acc EXCEPT !.usedClassNames = @ \cup {unique},
                   !.log = @ \o log,
                   !.generatedCSS = @ \o "/* Instance: " \o instance.componentName
                      \o "." \o instance.instanceName \o " */\n" \o instanceCSS \o "\n",
                   !.blocks = Append(@, [componentName |-> instance.componentName,
                                         instanceName |-> instance.instanceName,
                                         props |-> instance.props,
                                         className |-> unique,
                                         css |-> instanceCSS])]
  ELSE [acc EXCEPT !.usedClassNames = @ \cup {unique},
                   !.log = (@ \o log) \o <<LogEntry("warning",
                      " Generated CSS empty for " \o instance.componentName \o "."
                      \o instance.instanceName
                      \o " - check variables / when conditions.")>>]

\* the body of the for loop once made = processComponentInstance(...) is known
Cleaned(acc, instance, unique, made) ==
  IF made.err
  THEN [acc EXCEPT !.err = TRUE, !.log = @ \o made.log,
                   !.usedClassNames = @ \cup {unique}]
  ELSE Collect(acc, instance, unique, made.log, normalizeCss(stripCssComments(made.css)))

\* the body of the for loop for an instance whose component is found
Instantiate(acc, component, instance, unique) ==
  Cleaned(acc, instance, unique, processComponentInstance(component, instance, unique))

\* the body of the for loop for an instance whose component is not found
Skipped(acc, filePath, instance) ==
  [acc EXCEPT !.log = Append(@, LogEntry("warning",
     " Component \"" \o instance.componentName \o "\" not found for instance \""
     \o instance.instanceName \o "\" in " \o filePath \o " - skipping."))]

RECURSIVE InstanceLoop(_, _, _, _)
\* the for loop over the instances; acc holds usedClassNames, generatedCSS, the
\* log, the blocks generated so far and whether processComponentInstance threw
InstanceLoop(filePath, defs, instances, acc) ==
  IF Len(instances) = 0 \/ acc.err THEN acc
  ELSE IF ~HasComponent(defs, Head(instances).componentName)
  THEN InstanceLoop(filePath, defs, Tail(instances),
                    Skipped(acc, filePath, Head(instances)))
  ELSE InstanceLoop(filePath, defs, Tail(instances),
         Instantiate(acc, GetComponent(defs, Head(instances).componentName),
                     Head(instances),
                     UniqueName(toLowerCase(Head(instances).instanceName),
                                acc.usedClassNames)))

\* [plainCSS, generatedCSS].filter(Boolean).join('\n\n')
Combined(plainCSS, generatedCSS) ==
  IF plainCSS = "" THEN generatedCSS
  ELSE IF generatedCSS = "" THEN plainCSS
  ELSE plainCSS \o "\n\n" \o generatedCSS

\* step 4 of processFile: the plain CSS and the generated CSS are combined, the
\* @import lines that are left are removed and the result is normalized
Combine(plainCSS, done) ==
  [err |-> done.err, log |-> done.log, blocks |-> done.blocks,
   css |-> IF done.err THEN ""
           ELSE normalizeCss(stripImportStatements(Combined(plainCSS, done.generatedCSS)))]

\* steps 2 to 4 of processFile on the resolved content
GenerateFrom(filePath, plainCSS, resolvedContent) ==
  Combine(plainCSS,
          InstanceLoop(filePath, parseComponentDefinition(resolvedContent),
                       parseComponentInstances(resolvedContent),
                       [usedClassNames |-> {}, generatedCSS |-> "", log |-> <<>>,
                        blocks |-> <<>>, err |-> FALSE]))

\* what processFile returns, or the error it throws, after the loop over the
\* instances has ended as gen tells
Returned(call, gen) ==
  [call EXCEPT !.pc = IF gen.err THEN "failed" ELSE "done",
               !.error = IF gen.err THEN "TypeError" ELSE "",
               !.log = (@ \o gen.log) \o
                         (IF gen.err THEN <<ErrorLog(call.filePath)>> ELSE <<>>),
               !.blocks = gen.blocks,
               !.css = gen.css]

\* processFile after resolveImportsRecursively has returned: it returns the
\* final CSS, or fails with the TypeError thrown by buildAst
Generate(t) ==
  /\ running = t
  /\ task[t].pc = "generate"
  /\ task' = [task EXCEPT ![t] = Returned(task[t],
                GenerateFrom(task[t].filePath, task[t].plainCSS,
                             task[t].resolvedContent))]
  /\ running' = 0
  /\ UNCHANGED <<files, lastIndex>>

(* --------------------- one call of processFile alone ------------------- *)

RECURSIVE ResolveAlone(_, _, _, _)
\* resolveImportsRecursively run from the frames fr with no other call of
\* processFile in between: the resolved content that the outermost call returns
ResolveAlone(fs, fr, visited, li) ==
  LET n == Len(fr)
      top == fr[n]
      match == ExecImport(top.result, li)
      importPath == ImportPathOf(match)
      fullPath == PathResolve(top.baseDir, importPath)
      emptied == [fr EXCEPT ![n] = [top EXCEPT !.result = ReplaceFirst(@, match.text, "")]]
      caller == fr[n - 1]
  IN IF ~match.ok
     THEN IF n = 1 THEN top.result
          ELSE ResolveAlone(fs, Append(SubSeq(fr, 1, n - 2),
                 [caller EXCEPT !.result = ReplaceFirst(@, caller.match, top.result)]),
                 visited, 0)
     ELSE IF fullPath \in visited
     THEN ResolveAlone(fs, emptied, visited, LastIndexAfter(match))
     ELSE IF fullPath \in DOMAIN fs
     THEN ResolveAlone(fs, Append([fr EXCEPT ![n] = [top EXCEPT !.match = match.text]],
                                  CallFrame(fs[fullPath], PathDirname(fullPath))),
                       MarkVisited(visited, fullPath), LastIndexAfter(match))
     ELSE ResolveAlone(fs, emptied, MarkVisited(visited, fullPath), LastIndexAfter(match))

\* processFile(filePath) run alone on the files fs, IMPORT_REGEX.lastIndex being 0
\* as it is when the module is loaded
CompileAlone(fs, filePath) ==
  LET content == fs[filePath]
      resolved == ResolveAlone(fs, <<CallFrame(content, PathDirname(filePath))>>, {}, 0)
      gen == GenerateFrom(filePath, PlainCssOf(content), resolved)
  IN IF FatalMessages(analyzeContent(content)) # <<>>
     THEN [ok |-> FALSE, css |-> ""]
     ELSE [ok |-> ~gen.err, css |-> gen.css]

(* ------------------------------- files --------------------------------- *)

\* the number of @import directives at the head of an entry file
MaxDirectives == 2

\* the number of rules of an entry file of ordinary CSS
MaxRules == 2

RECURSIVE Concat(_)
Concat(texts) == IF Len(texts) = 0 THEN "" ELSE Head(texts) \o Concat(Tail(texts))

SeqsUpTo(S, n) == UNION {[1..k -> S] : k \in 0..n}

Directive(target) == "@import \"" \o target \o "\";\n"

ImportedBox == "component Box($w: 4) {\n  .r { width: $w; color: red; }\n}\n"

LocalBox == "component Box($w: 5) {\n  .r { width: $w; color: blue; }\n}\n"

LocalCard == "component Card($h: 2) {\n  .t { height: $h; }\n}\n"

InstBox == "Box.s { }\n"

EntryPath == "/p/a.axcss"

OtherEntryPath == "/q/a.axcss"

\* the files beside the entry file: b defines Box, c imports the entry file
\* and b, sub/d imports its neighbour e; there is no file m
Library ==
  [p \in {"/p/b.axcss", "/p/c.axcss", "/p/sub/d.axcss", "/p/sub/e.axcss"} |->
     CASE p = "/p/b.axcss" -> ImportedBox
       [] p = "/p/c.axcss" -> Directive("./a") \o Directive("./b")
       [] p = "/p/sub/d.axcss" ->
            "component Pad($p: 1) {\n  .q { pad: $p; }\n}\n" \o Directive("./e")
       [] p = "/p/sub/e.axcss" -> "component Deep($z: 3) {\n  .u { z: $z; }\n}\n"]

Targets == {"./b", "./m", "./c", "./a", "./sub/d"}

\* entry files with imports: directives, then definitions and an instance of Box
ImportEntries ==
  {Concat([i \in DOMAIN pre |-> Directive(pre[i])]) \o body :
     pre \in SeqsUpTo(Targets, MaxDirectives),
     body \in {InstBox, LocalBox \o InstBox,
               LocalBox \o Directive("./b") \o InstBox, LocalCard \o InstBox}}

PlainRules ==
  {".x { a: b; }\n", "div.box { c: d; }\n", ".component { e: f; }\n",
   "h1 { g: h; } /* k */\n"}

\* entry files of ordinary CSS
PlainEntries == {Concat(rules) : rules \in SeqsUpTo(PlainRules, MaxRules)}

\* entry files on which the analyzer reports errors, warnings or both, and two
\* on which it reports nothing or warnings only and a value holds a brace
DiagEntries ==
  {"component Box($w: 4) {\n  .r { width: $w; }\n",
   "component Box($w: 4) {\n  .r { width: $w; }\n}\n}\nBox.s { }\n",
   "component Box($w, $w) {\n  .r { width: $w; }\n}\n}\nBox.s { $w: 1; }\n",
   "component Box($w: 4) {\n  .r { width: $w; top: $t; }\n}\nBox.s { }\n",
   "component Box($w: 4) {\n  .r { width: $w; }\n}\nBox.s { $v: 1; }\n",
   "component Box($w: 4) {\n  .r { width: $w; top: $t; }\n}\nBox.s { $v: 1; }\nTab.s { }\n",
   "component Box($w) {\n  .r { width: $w; }\n}\nBox.s { $w: x{y; }\n}\n",
   "component Box($w) {\n  .r { width: $w; }\n}\nBox.s { $w: x{y; $v: 1; }\n}\n"}

ParamLists ==
  {"$w: 4, $c: 'red'", "$w = 4, $c = red", "$w, $c: red", "$w: 4, $c", "$w: 4, $c: blue"}

PropLists ==
  {"", "$w: 4;", "$c: red;", "$w: 4; $c: red;", "$w: '4'; $c: \"red\";", "$w: 9; $c: red;"}

\* entry files with one component and one instance of it
ParamEntries ==
  {"component Box(" \o params \o ") {\n  .r { width: $w; color: $c; }\n"
     \o "  when $c == red { .k { top: $w; } }\n}\nBox.s { " \o props \o " }\n" :
     params \in ParamLists, props \in PropLists}

Entries == ImportEntries \cup PlainEntries \cup DiagEntries \cup ParamEntries

\* the entry files of two calls of processFile that run at the same time, each
\* in a directory of its own
PairEntries ==
  {Concat([i \in DOMAIN pre |-> Directive(pre[i])]) \o InstBox :
     pre \in SeqsUpTo({"./b", "./m"}, MaxDirectives)}

Disk(entry) ==
  [p \in DOMAIN Library \cup {EntryPath} |->
     IF p = EntryPath THEN entry ELSE Library[p]]

PairDisk(entry, other) ==
  [p \in DOMAIN Library \cup {EntryPath, OtherEntryPath, "/q/b.axcss"} |->
     IF p = EntryPath THEN entry
     ELSE IF p = OtherEntryPath THEN other
     ELSE IF p = "/q/b.axcss" THEN LocalBox
     ELSE Library[p]]

(* ---------------------------- specifications --------------------------- *)

\* one call of processFile on an entry file
Init ==
  /\ \E entry \in Entries : files = Disk(entry)
  /\ lastIndex = 0
  /\ running = 0
  /\ task = [t \in {1} |-> IdleTask(EntryPath)]
  /\ NoDev

\* two calls of processFile on two entry files
InitPair ==
  /\ \E entry \in PairEntries, other \in PairEntries : files = PairDisk(entry, other)
  /\ lastIndex = 0
  /\ running = 0
  /\ task = [t \in {1, 2} |-> IdleTask(IF t = 1 THEN EntryPath ELSE OtherEntryPath)]
  /\ NoDev

Step(t) ==
  \/ Call(t)
  \/ ReadEntry(t)
  \/ ReadEntryAgain(t)
  \/ ImportMatch(t)
  \/ ReadImport(t)
  \/ ImportReturn(t)
  \/ Generate(t)

Next == (\E t \in DOMAIN task : Step(t)) /\ UNCHANGED devVars

Spec == Init /\ [][Next]_vars

SpecPair == InitPair /\ [][Next]_vars

(* ------------------------- component scenarios ------------------------- *)

\* the number of pieces between the first and the last rule of a component body
MaxSegments == 2

\* a piece of a component body is a text, or a when construct: the variable,
\* the operator, the literal as the quote around it and the text between the
\* quotes, the text between the literal and the brace, and the inner content
TextPiece(text) == [text |-> text]

WhenPiece(var, op, quote, value, gap, inner) ==
  [var |-> var, op |-> op, quote |-> quote, value |-> value, gap |-> gap,
   inner |-> inner]

IsWhen(piece) == "var" \in DOMAIN piece

\* the source text of a piece; the line end after a construct is outside it
RenderPiece(piece) ==
  IF IsWhen(piece)
  THEN "when $" \o piece.var \o " " \o piece.op \o " " \o piece.quote \o piece.value
       \o piece.quote \o piece.gap \o "{" \o piece.inner \o "}\n"
  ELSE piece.text

\* a when construct nested in the block of another
NestedWhen == "when $n != 4 { .z { a: b; } }"

Pieces ==
  {TextPiece(".m { x: y; }\n"),
   WhenPiece("c", "==", "", "red", " ", " .k { top: 1; } "),
   WhenPiece("c", "!=", "'", "red", " ", " .j { left: 2; } "),
   WhenPiece("c", "==", "\"", "blue", "", " .b { will: $n; } "),
   WhenPiece("n", "==", "", "4", " ", "\n  .f { four: 4; }\n"),
   WhenPiece("c", "==", "", "red", " ", " " \o NestedWhen \o " .y { c: d; } "),
   WhenPiece("c", "!=", "", "red", " ", " .x { e: f; } " \o NestedWhen \o " ")}

FirstRule == ".r { color: $c; }\n"

LastRule == ".e { n: $n; }"

\* the body of the component of a when scenario, as cleanBlockString leaves it
PiecesBody(pieces) ==
  FirstRule \o Concat([i \in DOMAIN pieces |-> RenderPiece(pieces[i])]) \o LastRule

PieceLists == SeqsUpTo(Pieces, MaxSegments)

WhenProps == {"", "$c: red;", "$c: blue; $n: 5;"}

\* an entry file with a component whose body holds the pieces and one instance
WhenEntry(pieces, props) ==
  "component Box($c: red, $n: 4) {\n  " \o PiecesBody(pieces) \o "\n}\nBox.s { "
  \o props \o " }\n"

WhenEntries == {WhenEntry(pieces, props) : pieces \in PieceLists, props \in WhenProps}

\* the files beside the entry file of a component scenario: w defines a
\* component whose when construct names a variable that is no parameter
ComponentLibrary ==
  [p \in {"/p/w.axcss"} |->
     "component Tag($a: 1) {\n  .t { a: $a; }\n  when $z != 1 { .h { b: c; } }\n}\n"]

\* entry files that instantiate the component of an imported file
ImportedWhenEntries ==
  {Directive("./w") \o "Tag.s { }\n", Directive("./w") \o "Tag.s { $a: 2; }\n"}

\* entry files with a component whose parameter c has no default and an
\* instance that gives it no value
UnsetEntries ==
  {"component Box($c, $n: 4) {\n  " \o PiecesBody(<<piece>>) \o "\n}\nBox.s { $n: 5; }\n" :
     piece \in {q \in Pieces : IsWhen(q)}}

\* the number of instances of an entry file with several instances
MaxInstances == 3

\* instances whose names collide, as they are or in lower case, one whose name
\* ends in -1, and one of a component with an empty body
NamedInstances == {"Box.s { }\n", "Box.S { }\n", "Box.s-1 { }\n", "Nil.s { }\n"}

\* entry files with two components and several instances
InstanceEntries ==
  {LocalBox \o "component Nil($x: 1) {\n}\n" \o Concat(instances) :
     instances \in SeqsUpTo(NamedInstances, MaxInstances)}

\* the number of top-level blocks of a component body made of style blocks
MaxBlocks == 2

\* a style block: the comma-separated segments of its selector, each given as
\* the texts around its & signs, its declarations, and its child blocks
StyleBlock(selector, decls, children) ==
  [selector |-> selector, decls |-> decls, children |-> children]

SegmentText(segment) == JoinWith(segment, "&")

SelectorText(selector) ==
  JoinWith([i \in DOMAIN selector |-> SegmentText(selector[i])], ", ")

\* the source text of a block without children
RenderLeaf(block) ==
  SelectorText(block.selector) \o " { " \o JoinWith(block.decls, " ") \o " }"

\* the source text of a block whose children have no children
RenderBlock(block) ==
  SelectorText(block.selector) \o " { " \o JoinWith(block.decls, " ") \o " "
  \o JoinWith([i \in DOMAIN block.children |-> RenderLeaf(block.children[i])], " ")
  \o " }\n"

StyleBlocks ==
  {StyleBlock(<<<<".r">>>>, <<"x: 1;">>, <<>>),
   StyleBlock(<<<<"", ":hover">>, <<":focus">>>>, <<"y: 2;">>, <<>>),
   StyleBlock(<<<<"[dir]">>>>, <<"z: 3;">>,
              <<StyleBlock(<<<<"> li">>>>, <<"u: 4;", "v: 5;">>, <<>>)>>),
   StyleBlock(<<<<"a">>, <<".b">>>>, <<>>,
              <<StyleBlock(<<<<"", " + ", "">>, <<"i">>>>, <<"t: 6;">>, <<>>),
                StyleBlock(<<<<"#n">>>>, <<>>, <<>>),
                StyleBlock(<<<<"em">>>>, <<"q: 8;">>, <<>>)>>),
   StyleBlock(<<<<"#id">>>>, <<>>, <<>>),
   StyleBlock(<<<<"> p">>>>, <<"m: n;">>, <<>>)}

StyleBlockLists == SeqsUpTo(StyleBlocks, MaxBlocks)

\* an entry file with a component whose body holds the blocks and one instance
StyleEntry(blocks) ==
  "component Box($w: 4) {\n"
  \o Concat([i \in DOMAIN blocks |-> RenderBlock(blocks[i])]) \o "}\nBox.s { }\n"

StyleEntries == {StyleEntry(blocks) : blocks \in StyleBlockLists}

\* the number of parts of an entry file that mixes plain CSS with components
MaxParts == 3

\* a part of an entry file: plain CSS, or the span of a component definition
\* or of an instance, which a line end follows
PlainPart(text) == [text |-> text, plain |-> TRUE]

SpanPart(text) == [text |-> text, plain |-> FALSE]

RenderPart(part) == IF part.plain THEN part.text ELSE part.text \o "\n"

\* plain rules, a component, an instance of it, and a component whose body
\* holds an instance of the other
Parts ==
  {PlainPart(".x { a: b; }\n"),
   PlainPart("p { c: d; }\n"),
   SpanPart("component Box($w: 5) {\n  .r { width: $w; color: blue; }\n}"),
   SpanPart("component Card($h: 2) {\n  .t { height: $h; }\n  Box.in { }\n}"),
   SpanPart("Box.s { }")}

PartLists == SeqsUpTo(Parts, MaxParts)

MixedEntry(parts) == Concat([i \in DOMAIN parts |-> RenderPart(parts[i])])

MixedEntries == {MixedEntry(parts) : parts \in PartLists}

ComponentEntries ==
  WhenEntries \cup ImportedWhenEntries \cup UnsetEntries \cup InstanceEntries
  \cup StyleEntries \cup MixedEntries

ComponentDisk(entry) ==
  [p \in DOMAIN ComponentLibrary \cup {EntryPath} |->
     IF p = EntryPath THEN entry ELSE ComponentLibrary[p]]

\* one call of processFile on the entry file of a component scenario
InitComponent ==
  /\ \E entry \in ComponentEntries : files = ComponentDisk(entry)
  /\ lastIndex = 0
  /\ running = 0
  /\ task = [t \in {1} |-> IdleTask(EntryPath)]
  /\ NoDev

SpecComponent == InitComponent /\ [][Next]_vars

(* ------------------------------ watch mode ------------------------------ *)

\* the delay of the timer of scheduleBuild, in ms
Delay == 100

\* the clock advances by half the delay
HalfDelay == Delay \div 2

\* the number of events the watcher emits
MaxEvents == 3

\* the number of steps of the clock
MaxTicks == 8

\* the events that startDev registers scheduleBuild for
WatcherEvents == {"add", "change", "unlink"}

\* clearTimeout(id): the timer is taken from the waiting timers; nothing happens
\* when it has fired already
clearTimeout(pending, id) == {t \in pending : t.id # id}

\* setTimeout(callback, delay) at the time now: one more waiting timer
setTimeout(pending, id, now, delay) == pending \cup {[id |-> id, due |-> now + delay]}

\* startDev: the watcher is made and scheduleBuild registered for its events
startDev ==
  /\ ~watching
  /\ watching' = TRUE
  /\ UNCHANGED <<timeout, timers, clock, builds, events>>
  /\ UNCHANGED compileVars

\* the watcher emits an event and scheduleBuild runs: the timer that timeout
\* names is cleared and timeout names a new timer, due after the delay
scheduleBuild(event) ==
  /\ watching
  /\ Len(events) < MaxEvents
  /\ events' = Append(events, event)
  /\ timeout' = Len(events) + 1
  /\ timers' = setTimeout(IF timeout # 0 THEN clearTimeout(timers, timeout) ELSE timers,
                          Len(events) + 1, clock, Delay)
  /\ UNCHANGED <<watching, clock, builds>>
  /\ UNCHANGED compileVars

\* a timer that is due fires: its callback calls build and is suspended at the
\* await until the build settles
TimerFires(t) ==
  /\ t \in timers
  /\ t.due <= clock
  /\ timers' = timers \ {t}
  /\ builds' = builds \cup {t.id}
  /\ UNCHANGED <<watching, timeout, clock, events>>
  /\ UNCHANGED compileVars

\* a build settles, fulfilled or rejected, after any time: the callback that
\* awaits it logs and ends
BuildSettles(b) ==
  /\ b \in builds
  /\ builds' = builds \ {b}
  /\ UNCHANGED <<watching, timeout, timers, clock, events>>
  /\ UNCHANGED compileVars

\* time passes while no timer is due
Tick ==
  /\ clock < MaxTicks * HalfDelay
  /\ \A t \in timers : t.due > clock
  /\ clock' = clock + HalfDelay
  /\ UNCHANGED <<watching, timeout, timers, builds, events>>
  /\ UNCHANGED compileVars

\* the command dev in a directory, before startDev runs
InitDev ==
  /\ files = ComponentLibrary
  /\ lastIndex = 0
  /\ running = 0
  /\ task = <<>>
  /\ watching = FALSE
  /\ timeout = 0
  /\ timers = {}
  /\ clock = 0
  /\ builds = {}
  /\ events = <<>>

NextDev ==
  \/ startDev
  \/ \E event \in WatcherEvents : scheduleBuild(event)
  \/ \E t \in timers : TimerFires(t)
  \/ \E b \in builds : BuildSettles(b)
  \/ Tick

SpecDev == InitDev /\ [][NextDev]_vars



(* -------------------------------- claims ------------------------------- *)

\* the call of processFile that every specification makes
Compile == task[1]

Entry == files[EntryPath]

Finished == Compile.pc \in {"done", "failed"}

\* the CSS that processFile makes of the instance of a generated block when
\* the component is def
BlockCssFrom(def, block, props) ==
  normalizeCss(stripCssComments(
    processComponentInstance(def, [componentName |-> block.componentName,
                                   instanceName |-> block.instanceName,
                                   props |-> props, rawBody |-> ""],
                             block.className).css))

\* the files that the compile has read as imports and that define name
ImportedDefinitions(name) ==
  {p \in (Compile.visited \cap DOMAIN files) \ {EntryPath} :
     HasComponent(parseComponentDefinition(files[p]), name)}

\* C1: when the entry file defines a component and also imports a file that
\* defines a component of the same name, every instance of it that compile
\* renders is rendered from the body of the local definition.
C1_LocalDefinitionWins ==
  Compile.pc = "done" =>
    \A i \in 1..Len(Compile.blocks) :
      LET block == Compile.blocks[i]
          local == parseComponentDefinition(Entry)
      IN (HasComponent(local, block.componentName)
          /\ ImportedDefinitions(block.componentName) # {})
         => block.css = BlockCssFrom(GetComponent(local, block.componentName), block,
                                     block.props)

\* C2: compiling an entry file of ordinary CSS rules succeeds and returns every
\* rule, unchanged but for the stripped comments and the normalized whitespace.
C2_PlainCssRoundTrip ==
  (Entry \in PlainEntries /\ Finished) =>
    /\ Compile.pc = "done"
    /\ Compile.css = normalizeCss(stripCssComments(Entry))

\* the diagnostics of a severity that the analyzer reports for the entry file
Diagnostics(severity) ==
  LET issues == analyzeContent(Entry)
  IN {issues[i] : i \in {k \in 1..Len(issues) : issues[k].severity = severity}}

\* `${message} (line ${line}:${column})`
Formatted(issue) ==
  issue.message \o " (line " \o ToString(issue.line) \o ":" \o ToString(issue.column) \o ")"

\* the analyzer has run: the first read of the entry file is over
Analyzed == Compile.pc \notin {"idle", "read1"}

\* C3: with an error among the diagnostics compile fails with one
\* message that lists every error and returns no CSS; with warnings only,
\* compile returns CSS.
C3_ErrorsBlockWarningsPass ==
  Finished =>
    /\ Diagnostics("error") # {} =>
         /\ Compile.pc = "failed"
         /\ Compile.css = ""
         /\ \A issue \in Diagnostics("error") : Includes(Compile.error, Formatted(issue))
    /\ (Diagnostics("error") = {} /\ Diagnostics("warning") # {}) => Compile.pc = "done"

\* the component that the compile uses for a generated block
ComponentOf(block) ==
  GetComponent(parseComponentDefinition(Compile.resolvedContent), block.componentName)

\* C4: no CSS is emitted for an instance that leaves a declared parameter
\* without a value when the component gives it no default.
C4_MissingParameterIsFatal ==
  Compile.pc = "done" =>
    \A i \in 1..Len(Compile.blocks) :
      LET params == ComponentOf(Compile.blocks[i]).params
      IN \A k \in 1..Len(params) :
           params[k].hasDefault \/ HasProp(Compile.blocks[i].props, params[k].name)

\* C5: the resolved text that import resolution returns holds no @import
\* directive: each one was replaced by the resolved text of its target, or by
\* nothing when the target is missing or already visited.
C5_NoDirectiveLeft ==
  Compile.pc \in {"generate", "done"} => ~ExecImport(Compile.resolvedContent, 0).ok

RECURSIVE DirectivesAfter(_, _)
\* the directive match, when it is one, and the directives of the text s after it
DirectivesAfter(s, match) ==
  IF match.ok
  THEN <<match>> \o DirectivesAfter(s, ExecImport(s, LastIndexAfter(match)))
  ELSE <<>>

\* the @import directives of a text, from the 0-based index li on
DirectivesFrom(s, li) == DirectivesAfter(s, ExecImport(s, li))

\* the paths that the directives name when they are resolved against baseDir
PathsNamed(baseDir, directives) ==
  {PathResolve(baseDir, ImportPathOf(directives[i])) : i \in 1..Len(directives)}

\* the paths that the directives name when they are resolved against the
\* directory of some file
PathsFrom(directives) ==
  UNION {PathsNamed(PathDirname(p), directives) : p \in DOMAIN files}

\* every path that a directive of some file names when it is resolved against
\* the directory of some file
Reachable ==
  UNION {PathsFrom(DirectivesFrom(files[q], 0)) : q \in DOMAIN files}

\* the length of the longest file
LongestFile == Max({Len(files[q]) : q \in DOMAIN files})

RECURSIVE TextLeft(_)
\* the length of the results of the calls of resolveImportsRecursively together
TextLeft(frames) ==
  IF Len(frames) = 0 THEN 0 ELSE Len(Head(frames).result) + TextLeft(Tail(frames))

\* the steps of processFile that are still ahead, by its position
Phase ==
  CASE Compile.pc = "idle" -> 5
    [] Compile.pc = "read1" -> 4
    [] Compile.pc = "read2" -> 3
    [] Compile.pc \in {"loop", "readImport"} -> 2
    [] Compile.pc = "generate" -> 1
    [] OTHER -> 0

\* what import resolution has left to do, an integer that is at least
\* -(LongestFile + 3) * Cardinality(Reachable) while the visited paths are among
\* the reachable ones: a path newly visited lowers it most, a pending read
\* counts for the file it may bring, then the open calls and their texts
Resolving ==
  (IF Compile.pc = "readImport" THEN LongestFile + 2 ELSE 0)
  + Len(Compile.frames) + TextLeft(Compile.frames)
  - (LongestFile + 3) * Cardinality(Compile.visited)

\* a step that the compile can take
CanStep ==
  \/ Compile.pc \in {"idle", "read1", "read2", "readImport"} /\ running = 0
  \/ Compile.pc \in {"loop", "generate"} /\ running = 1

\* C6: on every entry file with imports, cycles and self-imports among them,
\* import resolution terminates and compile returns its CSS: every step of the
\* compile moves it to a later phase or, within import resolution, lowers what
\* resolution has left to do, which is bounded below; and once the analyzer
\* has accepted the entry file the compile never fails and, until it has
\* returned, can always take a step.
C6_ResolutionTerminates ==
  /\ [][Phase' < Phase \/ (Phase' = Phase /\ Resolving' < Resolving)]_vars
  /\ [](Compile.visited \subseteq Reachable)
  /\ []((Entry \in ImportEntries /\ Analyzed /\ Diagnostics("error") = {})
          => (Compile.pc = "done" \/ (Compile.pc # "failed" /\ CanStep)))

\* compile has returned on an import graph with a cycle through the entry file
C6_Witness ==
  /\ Compile.pc = "done"
  /\ EntryPath \in Compile.visited
  /\ Cardinality(Compile.visited) >= 2

\* import resolution is about to meet a directive whose target is visited
MeetsVisited ==
  /\ Compile.pc = "loop"
  /\ running = 1
  /\ ExecImport(Top(1).result, lastIndex).ok
  /\ PathResolve(Top(1).baseDir, ImportPathOf(ExecImport(Top(1).result, lastIndex)))
       \in Compile.visited

\* C7: the step that meets a directive whose target is in the visited set
\* replaces the directive with empty text and logs a warning.
C7_VisitedImportWarns ==
  [][MeetsVisited =>
       /\ Top(1).result' =
            ReplaceFirst(Top(1).result, ExecImport(Top(1).result, lastIndex).text, "")
       /\ Len(Compile.log') = Len(Compile.log) + 1
       /\ Compile.log'[Len(Compile.log')].level = "warning"]_vars

\* C8: each of two calls of processFile that run at the same time on files of
\* their own returns the CSS that it returns when it runs alone.
C8_SameAsAlone ==
  \A t \in DOMAIN task :
    task[t].pc = "done" => task[t].css = CompileAlone(files, task[t].filePath).css

\* the files that the entry file names in its own directives
DirectImports ==
  PathsNamed(PathDirname(EntryPath), DirectivesFrom(Entry, 0)) \cap DOMAIN files

\* C9: an instance C.x in an entry file that imports a file defining C compiles
\* to a generated block, also when the entry file defines components itself.
C9_ImportedInstanceCompiles ==
  Finished =>
    \A i \in 1..Len(parseComponentInstances(Entry)) :
      LET instance == parseComponentInstances(Entry)[i]
      IN (\E p \in DirectImports \ {EntryPath} :
            HasComponent(parseComponentDefinition(files[p]), instance.componentName))
         => /\ Compile.pc = "done"
            /\ \E k \in 1..Len(Compile.blocks) :
                 /\ Compile.blocks[k].componentName = instance.componentName
                 /\ Compile.blocks[k].instanceName = instance.instanceName

\* every parameter has a default, and the properties are exactly the defaults
PropsAreDefaults(component, props) ==
  /\ \A k \in 1..Len(component.params) :
       /\ component.params[k].hasDefault
       /\ HasProp(props, component.params[k].name)
       /\ GetProp(props, component.params[k].name) = component.params[k].defaultValue
  /\ \A k \in 1..Len(props) :
       \E j \in 1..Len(component.params) : component.params[j].name = props[k].name

\* C10: for a component with a default for every parameter, the CSS generated
\* for an instance whose properties are exactly the defaults is the CSS
\* generated for an instance of the same class name with no properties.
C10_DefaultFallback ==
  Compile.pc = "done" =>
    \A i \in 1..Len(Compile.blocks) :
      PropsAreDefaults(ComponentOf(Compile.blocks[i]), Compile.blocks[i].props)
        => Compile.blocks[i].css =
             BlockCssFrom(ComponentOf(Compile.blocks[i]), Compile.blocks[i], <<>>)

\* a block has been generated for an instance that spells out both defaults of
\* its component
C10_Witness ==
  /\ Compile.pc = "done"
  /\ \E i \in 1..Len(Compile.blocks) :
       /\ PropsAreDefaults(ComponentOf(Compile.blocks[i]), Compile.blocks[i].props)
       /\ Len(Compile.blocks[i].props) = 2
       /\ Includes(Compile.blocks[i].css, "width: 4;")

\* the merged props that processComponentInstance builds for a generated block
MergedOf(block) ==
  buildMergedProps(ComponentOf(block).params, block.props, ComponentOf(block).name,
                   block.instanceName).merged

\* the component with the defaults of its parameters taken away
WithoutDefaults(component) ==
  [component EXCEPT !.params =
     [k \in 1..Len(component.params) |->
        [component.params[k] EXCEPT !.hasDefault = FALSE, !.defaultValue = ""]]]

\* the instance of the block supplies a value for every parameter
OverridesAll(block) ==
  \A k \in 1..Len(ComponentOf(block).params) :
    HasProp(block.props, ComponentOf(block).params[k].name)

\* C11: the merged props of an instance map each declared parameter to the
\* value of the instance when it supplies one and to the default of the
\* component otherwise; so the CSS of an instance that overrides every
\* parameter is the CSS it has when the component declares no default at all.
C11_InstanceValueFirst ==
  Compile.pc = "done" =>
    \A i \in 1..Len(Compile.blocks) :
      /\ \A k \in 1..Len(ComponentOf(Compile.blocks[i]).params) :
           LET param == ComponentOf(Compile.blocks[i]).params[k]
           IN IF HasProp(Compile.blocks[i].props, param.name)
              THEN /\ HasProp(MergedOf(Compile.blocks[i]), param.name)
                   /\ GetProp(MergedOf(Compile.blocks[i]), param.name)
                        = GetProp(Compile.blocks[i].props, param.name)
              ELSE param.hasDefault =>
                   /\ HasProp(MergedOf(Compile.blocks[i]), param.name)
                   /\ GetProp(MergedOf(Compile.blocks[i]), param.name) = param.defaultValue
      /\ OverridesAll(Compile.blocks[i]) =>
           Compile.blocks[i].css =
             BlockCssFrom(WithoutDefaults(ComponentOf(Compile.blocks[i])),
                          Compile.blocks[i], Compile.blocks[i].props)

\* a block has been generated for an instance that overrides both parameters
\* of its component, one of them with a value that is not the default
C11_Witness ==
  /\ Compile.pc = "done"
  /\ \E i \in 1..Len(Compile.blocks) :
       /\ OverridesAll(Compile.blocks[i])
       /\ Len(ComponentOf(Compile.blocks[i]).params) = 2
       /\ \E k \in 1..2 :
            /\ ComponentOf(Compile.blocks[i]).params[k].hasDefault
            /\ ComponentOf(Compile.blocks[i]).params[k].defaultValue
                 # GetProp(Compile.blocks[i].props, ComponentOf(Compile.blocks[i]).params[k].name)
       /\ Includes(Compile.blocks[i].css, "width: 9;")

\* the condition of a when construct in an environment: the string value of
\* the variable against the text between the quotes of the literal
Holds(piece, env) ==
  IF piece.op = "=="
  THEN (IF HasProp(env, piece.var) THEN GetProp(env, piece.var) ELSE "undefined")
         = piece.value
  ELSE (IF HasProp(env, piece.var) THEN GetProp(env, piece.var) ELSE "undefined")
         # piece.value

\* what evaluation makes of a piece: the inner content of a when construct
\* whose condition holds, nothing of one whose condition fails, a text as it is
EvaluatedPiece(piece, env) ==
  IF IsWhen(piece)
  THEN (IF Holds(piece, env) THEN piece.inner ELSE "") \o "\n"
  ELSE piece.text

EvaluatedBody(pieces, env) ==
  FirstRule \o Concat([i \in DOMAIN pieces |-> EvaluatedPiece(pieces[i], env)]) \o LastRule

\* the pieces of the component body of the entry file of a when scenario
PiecesOfEntry ==
  {pieces \in PieceLists : \E props \in WhenProps : Entry = WhenEntry(pieces, props)}

\* the CSS that processFile makes of a body whose when constructs are evaluated
CssOfEvaluated(body, block) ==
  normalizeCss(stripCssComments(
    CssOf(buildAst(processVariables(body, MergedOf(block))), block.className, <<>>).css))

RECURSIVE EvaluatedWhens(_, _)
\* the matches of whenHeaderRegex whose condition processWhenConditions
\* evaluates, from position from on: the loop goes on behind the block
EvaluatedWhens(body, from) ==
  IF ~ExecWhen(body, from).ok THEN <<>>
  ELSE IF IndexOf(body, "{", SkipWs(body, ExecWhen(body, from).end)) = 0
  THEN EvaluatedWhens(body, SkipWs(body, ExecWhen(body, from).end))
  ELSE <<ExecWhen(body, from)>>
       \o EvaluatedWhens(body,
            extractBlock(body, IndexOf(body, "{", SkipWs(body, ExecWhen(body, from).end))).end)

\* C13: a compile that returns CSS has evaluated no when condition whose
\* variable is absent from the merged props of the instance.
C13_NoWhenOnAbsentVariable ==
  Compile.pc = "done" =>
    \A i \in 1..Len(Compile.blocks) :
      \A k \in 1..Len(EvaluatedWhens(ComponentOf(Compile.blocks[i]).body, 1)) :
        HasProp(MergedOf(Compile.blocks[i]),
                EvaluatedWhens(ComponentOf(Compile.blocks[i]).body, 1)[k].varName)

\* the text holds a declaration with an empty value: a colon, then white space
\* at most, then a semicolon
HasEmptyDeclaration(s) ==
  \E i \in 1..Len(s) :
    /\ Ch(s, i) = ":"
    /\ SkipWs(s, i + 1) <= Len(s)
    /\ Ch(s, SkipWs(s, i + 1)) = ";"

\* C14: compile fails on an entry file that holds a declaration with an empty
\* value, and the CSS that compile returns holds no declaration with an empty
\* value, also when variable substitution removed a $name token.
C14_NoEmptyDeclaration ==
  /\ (Finished /\ HasEmptyDeclaration(Entry)) => Compile.pc = "failed"
  /\ Compile.pc = "done" => ~HasEmptyDeclaration(Compile.css)

\* C15: no two generated blocks of a compile have the same class name; each
\* class name is the instance name in lower case, or that name followed by -N,
\* and the CSS of the block starts with that class.
C15_UniqueClassNames ==
  Compile.pc = "done" =>
    /\ \A i, j \in 1..Len(Compile.blocks) :
         i # j => Compile.blocks[i].className # Compile.blocks[j].className
    /\ \A i \in 1..Len(Compile.blocks) :
         /\ \/ Compile.blocks[i].className = toLowerCase(Compile.blocks[i].instanceName)
            \/ \E n \in 1..(MaxInstances + 1) :
                 Compile.blocks[i].className
                   = toLowerCase(Compile.blocks[i].instanceName) \o "-" \o ToString(n)
         /\ StartsWithAt(Compile.blocks[i].css, 1, "." \o Compile.blocks[i].className)

\* three blocks have been generated for instances named s, S and s-1
C15_Witness ==
  /\ Compile.pc = "done"
  /\ Len(Compile.blocks) = 3
  /\ {Compile.blocks[i].instanceName : i \in 1..3} = {"s", "S", "s-1"}
  /\ \E i \in 1..3 : Compile.blocks[i].className = "s-1-1"

\* a segment combined with a parent selector: the parent in the place of every
\* & sign, or the segment behind the parent, directly when it starts with a
\* colon or a bracket and after one space otherwise
CombinedSegment(parent, segment) ==
  IF Len(segment) > 1 THEN JoinWith(segment, parent)
  ELSE IF SubSeq(segment[1], 1, 1) \in {":", "["} THEN parent \o segment[1]
  ELSE parent \o " " \o segment[1]

\* the selectors of a block under the selectors of its parent
CombinedSelectors(parents, selector) ==
  [k \in 1..(Len(parents) * Len(selector)) |->
     CombinedSegment(parents[((k - 1) \div Len(selector)) + 1],
                     selector[((k - 1) % Len(selector)) + 1])]

\* the rule of a block with declarations, as normalizeCss leaves it
EmittedRule(selectors, decls) ==
  IF Len(decls) = 0 THEN <<>>
  ELSE <<JoinWith(selectors, ", ") \o " {\n"
         \o Concat([i \in DOMAIN decls |-> "  " \o decls[i] \o "\n"]) \o "}">>

\* the rules of a block and of its children, the block first
EmittedBlock(parents, block) ==
  EmittedRule(CombinedSelectors(parents, block.selector), block.decls)
  \o Concat([i \in DOMAIN block.children |->
               EmittedRule(CombinedSelectors(CombinedSelectors(parents, block.selector),
                                             block.children[i].selector),
                           block.children[i].decls)])

\* the CSS of an instance of class className of a component made of the blocks
EmittedCss(blocks, className) ==
  JoinWith(Concat([i \in DOMAIN blocks |-> EmittedBlock(<<"." \o className>>, blocks[i])]),
           "\n\n")

\* the style blocks of the component body of the entry file
StyleBlocksOfEntry == {blocks \in StyleBlockLists : Entry = StyleEntry(blocks)}

\* C16: every segment of the selector of a block is combined with every
\* selector of its parent, the parent replacing each & sign, a segment that
\* starts with a colon or a bracket put directly behind the parent and any
\* other after one space; a block without declarations emits no rule of its
\* own; the rules come in the order of the blocks in the text, parent first.
C16_SelectorCombination ==
  Compile.pc = "done" =>
    \A blocks \in StyleBlocksOfEntry :
      IF EmittedCss(blocks, "s") = "" THEN Compile.blocks = <<>>
      ELSE /\ Len(Compile.blocks) = 1
           /\ Compile.blocks[1].css = EmittedCss(blocks, "s") \o "\n"

\* a block has been generated from a body whose second block has no
\* declarations, a selector of two segments and a child with an & segment
C16_Witness ==
  /\ Compile.pc = "done"
  /\ Len(Compile.blocks) = 1
  /\ \E blocks \in StyleBlocksOfEntry :
       /\ Len(blocks) = 2
       /\ Len(blocks[1].decls) > 0
       /\ Len(blocks[2].decls) = 0 /\ Len(blocks[2].selector) = 2
       /\ Len(blocks[2].children) = 3
  /\ Includes(Compile.blocks[1].css, ".s a + .s a, .s a i, .s .b + .s .b, .s .b i {")

\* the comment that labels the generated block of an instance
LabelOf(block) ==
  "/* Instance: " \o block.componentName \o "." \o block.instanceName \o " */"

\* C17: the CSS that compile returns starts with the preserved plain CSS and
\* holds, behind it and in the order of the instances, the CSS of every
\* generated block under the comment that labels it.
C17_LabelledBlocks ==
  Compile.pc = "done" =>
    /\ StartsWithAt(Compile.css, 1, Compile.plainCSS)
    /\ \A i \in 1..Len(Compile.blocks) :
         /\ Includes(Compile.css, LabelOf(Compile.blocks[i]) \o "\n" \o Compile.blocks[i].css)
         /\ IndexOf(Compile.css, LabelOf(Compile.blocks[i]), 1) > Len(Compile.plainCSS)
    /\ \A i, j \in 1..Len(Compile.blocks) :
         i < j => IndexOf(Compile.css, Compile.blocks[i].css, 1)
                    <= IndexOf(Compile.css, Compile.blocks[j].css, 1)

\* the number of places of the text s where lit stands
CountOf(s, lit) == Cardinality({i \in 1..Len(s) : StartsWithAt(s, i, lit)})

\* the pieces whose block holds the nested when construct and is included
IncludedNests(pieces, env) ==
  {i \in DOMAIN pieces :
     IsWhen(pieces[i]) /\ Includes(pieces[i].inner, NestedWhen) /\ Holds(pieces[i], env)}

\* the pieces whose block holds the nested when construct
Nests(pieces) ==
  {i \in DOMAIN pieces : IsWhen(pieces[i]) /\ Includes(pieces[i].inner, NestedWhen)}

\* C18: processWhenConditions makes one pass: a when construct nested in a
\* block that is included stands in the result as it is, header and block,
\* whatever its condition, and reaches the CSS as a selector; one nested in a
\* block that is excluded is removed with the block.
C18_SinglePass ==
  Compile.pc = "done" =>
    \A pieces \in PiecesOfEntry :
      \A i \in 1..Len(Compile.blocks) :
        /\ CountOf(processWhenConditions(PiecesBody(pieces), MergedOf(Compile.blocks[i])),
                   NestedWhen)
             = Cardinality(IncludedNests(pieces, MergedOf(Compile.blocks[i])))
        /\ CountOf(processWhenConditions(PiecesBody(pieces), MergedOf(Compile.blocks[i])),
                   "when $")
             = Cardinality(IncludedNests(pieces, MergedOf(Compile.blocks[i])))
        /\ CountOf(Compile.blocks[i].css, " when ")
             = Cardinality(IncludedNests(pieces, MergedOf(Compile.blocks[i])))

\* a block has been generated from a body with a nested when construct in an
\* included block, its own condition true, and another in an excluded block
C18_Witness ==
  /\ Compile.pc = "done"
  /\ Len(Compile.blocks) = 1
  /\ HasProp(MergedOf(Compile.blocks[1]), "n")
  /\ GetProp(MergedOf(Compile.blocks[1]), "n") = "5"
  /\ \E pieces \in PiecesOfEntry :
       /\ Cardinality(Nests(pieces)) = 2
       /\ Cardinality(IncludedNests(pieces, MergedOf(Compile.blocks[1]))) = 1
  /\ Includes(Compile.blocks[1].css, ".s when 5 != 4 .z {")

\* the parts of the entry file of a mixed scenario
PartsOfEntry == {parts \in PartLists : Entry = MixedEntry(parts)}

\* the text of the parts outside the spans: the plain parts and the line ends
\* behind the spans
OutsideSpans(parts) ==
  Concat([i \in DOMAIN parts |-> IF parts[i].plain THEN parts[i].text ELSE "\n"])

\* C19: stripComponentAndInstanceBlocks removes the spans of the component
\* definitions and of the instances and nothing else: what it returns is, but
\* for the white space at its ends, the text outside the spans, and the plain
\* CSS of the compile is made of it, also when the body of a component holds
\* an instance.
C19_OnlySpansRemoved ==
  (Analyzed /\ Compile.pc # "failed") =>
    \A parts \in PartsOfEntry :
      /\ Trim(stripComponentAndInstanceBlocks(Entry)) = Trim(OutsideSpans(parts))
      /\ Compile.plainCSS
           = normalizeCss(stripCssComments(stripImportStatements(Trim(OutsideSpans(parts)))))

\* the text of a file without its @import lines
OwnText(p) == Trim(stripImportStatements(files[p]))

\* the generated blocks of an instance
BlocksOf(instance) ==
  {i \in 1..Len(Compile.blocks) :
     /\ Compile.blocks[i].componentName = instance.componentName
     /\ Compile.blocks[i].instanceName = instance.instanceName}

\* C20: the text of every file, the entry file included, stands at most once
\* in the resolved text, and an instance that the entry file holds once
\* generates one block at most.
C20_EachFileOnce ==
  /\ Compile.pc \in {"generate", "done"} =>
       \A p \in DOMAIN files :
         OwnText(p) # "" => CountOf(Compile.resolvedContent, OwnText(p)) <= 1
  /\ Compile.pc = "done" =>
       \A k \in 1..Len(parseComponentInstances(Entry)) :
         Cardinality(BlocksOf(parseComponentInstances(Entry)[k])) <= 1

\* C21: in watch mode at most one build is in progress at any time, whatever
\* the events and however long a build takes: the callback of the timer never
\* calls build while an earlier build has not settled.
C21_OneBuildAtATime == Cardinality(builds) <= 1

====
